---- MODULE Spec2Model ----
(***************************************************************************)
(* Verification model of the in-place allocators of MyLib:                 *)
(*   LinAllocator, AllocatorSeqFit (tx_memory.cpp),                        *)
(*   AllocatorHalfFit (tx_memory_halffit.cpp),                             *)
(*   AutoLinAlloc / SharedPtr (tx_automemory.cpp, tx_automemory.hpp).      *)
(*                                                                         *)
(* The managed region is a sequence of bytes; block headers are read and   *)
(* written through the same pointer arithmetic as the source.  The target  *)
(* is a 32-bit machine (static_assert((1u << 2) == sizeof(size_t))), so a  *)
(* size_t is a pair <<hi, lo>> of 16-bit halves and all arithmetic on it   *)
(* wraps modulo 2^32.  Words are stored little-endian (Cortex-M).          *)
(***************************************************************************)
EXTENDS Integers, Sequences, FiniteSets, TLC

VARIABLES
    primask,                 \* CPU PRIMASK bit: TRUE = interrupts masked
    \* ---- LinAllocator instance and its caller
    lin_mem,                 \* bytes of the region handed to initialize
    lin_next_search_block,   \* LinAllocator::next_search_block
    lin_address_start,       \* LinAllocator::address_start
    lin_address_end,         \* LinAllocator::address_end
    lin_pc,                  \* position inside LinAllocatorImpl::allocate
    lin_block_size,          \* local block_size of allocate
    lin_search_block,        \* local search_block of allocate
    lin_result,              \* value returned by the last alloc / free
    lin_content,             \* the caller's *content_ptr
    lin_op,                  \* the last public call made: "none", "alloc", "free"
    lin_fit,                 \* at the call: a free block of >= block_size existed
    lin_frees                \* the frees made since the last alloc, see LinNoFrees

VARIABLES
    \* ---- AllocatorSeqFit instance and its caller
    seq_mem,                 \* bytes of the region handed to initialize
    seq_next_search_block,   \* AllocatorSeqFit::next_search_block
    seq_address_start,       \* AllocatorSeqFit::address_start
    seq_address_end,         \* AllocatorSeqFit::address_end
    seq_pc,                  \* position inside AllocatorSeqFitImpl::allocate
    seq_block_size,          \* local block_size of allocate
    seq_search_distance,     \* local search_distance of allocate
    seq_search_block,        \* local search_block of allocate
    seq_status,              \* value returned by the last allocate (alloc drops it)
    seq_result,              \* pointer returned by the last alloc
    seq_live                 \* payload pointers the caller holds and has not freed

VARIABLES
    \* ---- AllocatorHalfFit instance and its caller
    hf_mem,                  \* bytes of the region handed to initialize
    hf_free_block_list,      \* AllocatorHalfFit::free_block_list
    hf_free_block_list_size, \* AllocatorHalfFit::free_block_list_size
    hf_address_start,        \* AllocatorHalfFit::address_start
    hf_address_end,          \* AllocatorHalfFit::address_end
    hf_lock,                 \* m_lock.m_lock (Spinlock flag)
    hf_primask,              \* m_lock.m_primask (PRIMASK saved by acquire)
    hf_pc,                   \* "idle", or "halt" after a failed TX_ASSERT
    hf_live,                 \* [ptr, req] of the allocations the caller holds
    hf_op,                   \* the last public call made: [op, ptr, req, merged]
    hf_pre,                  \* free blocks and unused size before the last alloc
    hf_freed,                \* the pointers freed since the last alloc, each
                             \* with the neighbours its free merged
    hf_test_pc,              \* unit_test1: the loop being run, "off" outside it
    hf_test_ptr,             \* unit_test1: the local array ptr, filled so far
    hf_test_i,               \* unit_test1: the loop variable i
    hf_clear_pc,             \* where a clear that can be interrupted stands
    hf_ended                 \* number of uninitialize calls that returned

VARIABLES
    \* ---- AutoLinAlloc instance, the contexts calling it, and its handles
    auto_mem,                \* bytes of the region handed to initialize
    auto_outside,            \* the byte held by the memory around the region
    auto_next_search_block,  \* AutoLinAlloc::next_search_block
    auto_address_start,      \* AutoLinAlloc::address_start
    auto_address_end,        \* AutoLinAlloc::address_end
    auto_allocation_lock,    \* AutoLinAlloc::allocation_lock
    auto_pc,                 \* per context: position inside alloc / allocate
    auto_block_size,         \* per context: local block_size of allocate
    auto_search_block,       \* per context: local search_block of allocate
    auto_result,             \* per context: result.mem_ptr of alloc
    auto_handles,            \* the live handles, see AutoNewHandle
    auto_calls,              \* number of alloc calls made so far
    auto_pre                 \* per context inside alloc: region and cursor at the call

VARIABLES
    \* ---- the SharedPtr objects of the caller of AutoLinAlloc
    sp_mem_ptr,              \* per object: SharedPtr::mem_ptr, or SpNoObject
    sp_op,                   \* the last SharedPtr member run: [op, dst, src]
    sp_count                 \* number of SharedPtr members run so far

VARIABLES
    \* ---- one Spinlock, the cores and the contexts that use it
    sl_m_lock,               \* Spinlock::m_lock
    sl_m_primask,            \* Spinlock::m_primask
    sl_primask,              \* per core: the PRIMASK bit of the core
    sl_pc,                   \* per context: position inside acquire / release
    sl_before,               \* per context: PRIMASK of its core when it called acquire
    sl_after,                \* per context: PRIMASK of its core when its last release
                             \* returned (in a tuple), SlNoRelease before
    sl_calls                 \* per context: number of acquire calls made so far

VARIABLES
    q_array,                 \* Queue: the elements of m_array (QRaw: raw storage)
    q_front,                 \* m_front
    q_back,                  \* m_back
    q_capacity,              \* m_capacity
    q_pc,                    \* "idle", or "halt" after a failed TX_ASSERT
    q_stored,                \* the elements pushed and not popped, oldest first
    q_op                     \* the last call and what it returned

VARIABLES
    ht_size,                 \* HashTable: size
    ht_key_list,             \* key_list[CAPACITY]
    ht_value_list,           \* value_list[CAPACITY]
    ht_pc,                   \* "idle", or "halt" after a failed TX_ASSERT
    ht_map                   \* for every key, the value last inserted and not
                             \* removed since (HtAbsent: none)

VARIABLES
    fh_size,                 \* ForgetfulHash: size
    fh_ref_list,             \* ref_list[KEY_CAPACITY]
    fh_key_list,             \* key_list[KEY_CAPACITY]
    fh_value_array,          \* value_array[VALUE_CAPACITY]
    fh_pc,                   \* "idle", or "halt" after a failed TX_ASSERT
    fh_op                    \* the last insert call: [key, value]

VARIABLES
    irq_entry                \* the PRIMASK bit at the entry of the last alloc or free
                             \* call made on a LinAllocator or an AllocatorSeqFit

VARIABLES
    init_op                  \* the last initialize call made on a LinAllocator,
                             \* AllocatorSeqFit or AutoLinAlloc: [who, count]

linVars == <<lin_mem, lin_next_search_block, lin_address_start, lin_address_end,
             lin_pc, lin_block_size, lin_search_block, lin_result, lin_content,
             lin_op, lin_fit, lin_frees>>

seqVars == <<seq_mem, seq_next_search_block, seq_address_start, seq_address_end,
             seq_pc, seq_block_size, seq_search_distance, seq_search_block,
             seq_status, seq_result, seq_live>>

hfVars == <<hf_mem, hf_free_block_list, hf_free_block_list_size, hf_address_start,
            hf_address_end, hf_lock, hf_primask, hf_pc, hf_live, hf_op, hf_pre,
            hf_freed, hf_test_pc, hf_test_ptr, hf_test_i, hf_clear_pc, hf_ended>>

autoVars == <<auto_mem, auto_outside, auto_next_search_block, auto_address_start,
              auto_address_end, auto_allocation_lock, auto_pc, auto_block_size,
              auto_search_block, auto_result, auto_handles, auto_calls,
              auto_pre>>

spVars == <<sp_mem_ptr, sp_op, sp_count>>

slVars == <<sl_m_lock, sl_m_primask, sl_primask, sl_pc, sl_before, sl_after, sl_calls>>

qVars == <<q_array, q_front, q_back, q_capacity, q_pc, q_stored, q_op>>

htVars == <<ht_size, ht_key_list, ht_value_list, ht_pc, ht_map>>

fhVars == <<fh_size, fh_ref_list, fh_key_list, fh_value_array, fh_pc, fh_op>>

\* the containers of tx_queue.hpp and tx_hash.hpp
contVars == <<qVars, htVars, fhVars>>

\* the allocators, their handles and locks
allocVars == <<primask, linVars, seqVars, hfVars, autoVars, spVars, slVars, init_op,
               irq_entry>>

vars == <<primask, linVars, seqVars, hfVars, autoVars, spVars, slVars, init_op, irq_entry,
          contVars>>

\* what an operation on one instance leaves alone: the other instances
LinFrame == UNCHANGED <<seqVars, hfVars, autoVars, spVars, slVars, init_op, contVars>>
SeqFrame == UNCHANGED <<linVars, hfVars, autoVars, spVars, slVars, init_op, contVars>>
HfFrame == UNCHANGED <<linVars, seqVars, autoVars, spVars, slVars, init_op, irq_entry, contVars>>
AutoFrame == UNCHANGED <<linVars, seqVars, hfVars, spVars, slVars, init_op, irq_entry, contVars>>
SpFrame == UNCHANGED <<linVars, seqVars, hfVars, slVars, init_op, irq_entry, contVars>>
SlFrame == UNCHANGED <<primask, linVars, seqVars, hfVars, autoVars, spVars, init_op, irq_entry, contVars>>

----------------------------------------------------------------------------
(* 32-bit words                                                            *)

Half == 2^16

\* the size_t holding the small natural n
W(n) == <<n \div Half, n % Half>>

NullW == W(0)

\* the natural held by a size_t below 2^31
Val(w) == w[1] * Half + w[2]

IsSmall(w) == w[1] = 0

AddW(x, y) ==
    LET lo == x[2] + y[2]
        hi == x[1] + y[1] + (lo \div Half)
    IN  <<hi % Half, lo % Half>>

SubW(x, y) ==
    LET lo == x[2] - y[2] + Half
        hi == x[1] - y[1] + Half - (IF lo < Half THEN 1 ELSE 0)
    IN  <<hi % Half, lo % Half>>

LtW(x, y) == x[1] < y[1] \/ (x[1] = y[1] /\ x[2] < y[2])
LeW(x, y) == x = y \/ LtW(x, y)
GtW(x, y) == LtW(y, x)
GeW(x, y) == LeW(y, x)

\* the four bytes of a word, least significant first
BytesOf(w) == <<w[2] % 256, w[2] \div 256, w[1] % 256, w[1] \div 256>>

\* address of the first byte of every region (the mem_ptr given to initialize)
MemBase == <<8192, 0>>

\* byte offset of address a inside the region, as a word
OffW(a) == SubW(a, MemBase)

\* the four bytes at address a lie inside the region held by m
InRegion(m, a) == IsSmall(OffW(a)) /\ OffW(a)[2] + 4 <= Len(m)

\* *(size_t *)a
RdWord(m, a) ==
    LET o == OffW(a)[2]
    IN  <<m[o + 3] + 256 * m[o + 4], m[o + 1] + 256 * m[o + 2]>>

\* *(size_t *)a = v
WrWord(m, a, v) ==
    LET o == OffW(a)[2]
        b == BytesOf(v)
    IN  [m EXCEPT ![o + 1] = b[1], ![o + 2] = b[2], ![o + 3] = b[3], ![o + 4] = b[4]]

\* a region of n bytes, every byte holding fill
FreshMem(n, fill) == [i \in 1..n |-> fill]

\* what the caller's region may hold before initialize
FillBytes == {0, 165}

\* content_size after "adjust the allocation size to the nearest valid number"
\* with MIN_ALLOC_SIZE_LOG2 = BYTE_PER_WORD_LOG2 = 2
RoundContent(n) ==
    LET c == IF n < 2^2 THEN 2^2 ELSE n
    IN  (((c - 1) \div 2^2) + 1) * 2^2

\* The blocks met walking address + size from a (the size field is at byte
\* offset off of a block): <<addresses in order, exact>>, exact meaning that
\* the walk arrived at address end without leaving the region, meeting a
\* zero size or taking more than fuel steps.
RECURSIVE Walk(_, _, _, _, _)
Walk(m, a, end, off, fuel) ==
    IF a = end THEN <<(<<>>), TRUE>>
    ELSE IF fuel = 0 \/ ~InRegion(m, AddW(a, W(off))) \/ ~InRegion(m, a) THEN <<(<<>>), FALSE>>
    ELSE IF RdWord(m, AddW(a, W(off))) = NullW THEN <<(<<a>>), FALSE>>
    ELSE LET rest == Walk(m, AddW(a, RdWord(m, AddW(a, W(off)))), end, off, fuel - 1)
         IN  <<(<<a>>) \o rest[1], rest[2]>>

BlocksOf(walk) == {walk[1][i] : i \in 1..Len(walk[1])}

\* sum modulo 2^32 of the size fields of the blocks of a walk
RECURSIVE SizeSum(_, _, _)
SizeSum(m, blocks, off) ==
    IF blocks = <<>> THEN NullW
    ELSE AddW(RdWord(m, AddW(Head(blocks), W(off))), SizeSum(m, Tail(blocks), off))

----------------------------------------------------------------------------
(* LinAllocator  (tx_memory.cpp 26-204)                                    *)

\* bounds: region sizes in words and request sizes in bytes
LinMaxWords == 16
LinMaxRequest == 12

\* sizeof(MemBlock) - sizeof(char) for the packed {State, size_t, char}
LIN_BLOCK_INFO_SIZE == 8
\* offsets of the members of the packed LinAllocator::MemBlock
LIN_OFF_STATE == 0
LIN_OFF_SIZE == 4
LIN_OFF_CONTENT == 8

StateUsed == <<61680, 61680>>     \* 0xF0F0F0F0
StateFree == <<61680, 61681>>     \* 0xF0F0F0F1

\* the values allocate and free return
Success == 0
OutOfMemory == 1
\* the caller's result variable before any call has returned
NoResult == Success - 1

LinState(m, b) == RdWord(m, AddW(b, W(LIN_OFF_STATE)))
LinSize(m, b)  == RdWord(m, AddW(b, W(LIN_OFF_SIZE)))
LinHeaderIn(m, b) ==
    InRegion(m, AddW(b, W(LIN_OFF_STATE))) /\ InRegion(m, AddW(b, W(LIN_OFF_SIZE)))

\* LinAllocatorImpl::find_next_block
LinFindNextBlock(m, b) ==
    LET next_address == AddW(b, LinSize(m, b))
    IN  IF next_address = lin_address_end THEN lin_address_start ELSE next_address

\* address of the block absorb_next_block_if_possible looks at
LinNextAddress(m, b) == AddW(b, LinSize(m, b))

\* LinAllocatorImpl::absorb_next_block_if_possible: the returned bool
LinAbsorbTaken(m, b) ==
    /\ LinNextAddress(m, b) /= lin_address_end
    /\ LinState(m, LinNextAddress(m, b)) = StateFree

\* LinAllocatorImpl::absorb_next_block_if_possible: the memory it leaves
\* (next_block_ptr->size += next_block_ptr->size)
LinAbsorbMem(m, b) ==
    IF LinAbsorbTaken(m, b)
    THEN LET n == LinNextAddress(m, b)
         IN  WrWord(m, AddW(n, W(LIN_OFF_SIZE)), AddW(LinSize(m, n), LinSize(m, n)))
    ELSE m

\* LinAllocatorImpl::split_block_if_possible
LinSplit(m, b, first) ==
    IF GeW(LinSize(m, b), AddW(first, W(LIN_BLOCK_INFO_SIZE + 2^2)))
    THEN LET nb == AddW(b, first)
             m1 == WrWord(m, AddW(nb, W(LIN_OFF_SIZE)), SubW(LinSize(m, b), first))
             m2 == WrWord(m1, AddW(nb, W(LIN_OFF_STATE)), StateFree)
         IN  WrWord(m2, AddW(b, W(LIN_OFF_SIZE)), first)
    ELSE m

LinBlocks == BlocksOf(Walk(lin_mem, lin_address_start, lin_address_end, LIN_OFF_SIZE,
                          Len(lin_mem)))

\* what the caller has freed: ptr, the pointer of the latest free; used, the
\* block was Used before the first of the consecutive frees of ptr; results,
\* what the first two of them returned; due, the pointer a first fit from
\* the cursor had to hand out at the last alloc, while the caller has freed
\* nothing else
LinNoFrees == [ptr |-> NullW, used |-> FALSE, results |-> <<>>, due |-> NullW]

\* the payload of the block at the cursor, when that block is Free and holds
\* block_size bytes; the null pointer otherwise
LinCursorPayload(block_size) ==
    IF /\ LinState(lin_mem, lin_next_search_block) = StateFree
       /\ GeW(LinSize(lin_mem, lin_next_search_block), block_size)
    THEN AddW(lin_next_search_block, W(LIN_OFF_CONTENT))
    ELSE NullW

\* the caller's record after free(content_ptr) returned result
LinFreed(content_ptr, result) ==
    IF lin_op = "free" /\ lin_frees.ptr = content_ptr
    THEN [lin_frees EXCEPT !.results = IF Len(@) < 2 THEN Append(@, result) ELSE @]
    ELSE [ptr |-> content_ptr,
          used |-> LinState(lin_mem, SubW(content_ptr, W(LIN_BLOCK_INFO_SIZE))) = StateUsed,
          results |-> <<result>>,
          due |-> IF lin_op = "alloc" THEN lin_frees.due ELSE NullW]

LinInit ==
    \E words \in 1..LinMaxWords, fill \in FillBytes :
        LET size == 4 * words
            m0 == FreshMem(size, fill)
            \* LinAllocator::initialize
            m1 == WrWord(m0, AddW(MemBase, W(LIN_OFF_STATE)), StateFree)
            m2 == WrWord(m1, AddW(MemBase, W(LIN_OFF_SIZE)), W(size))
        IN  /\ size >= LIN_BLOCK_INFO_SIZE + 2^2
            /\ lin_mem = m2
            /\ lin_next_search_block = MemBase
            /\ lin_address_start = MemBase
            /\ lin_address_end = AddW(MemBase, W(size))
            /\ lin_pc = "idle"
            /\ lin_block_size = NullW
            /\ lin_search_block = NullW
            /\ lin_result = NoResult
            /\ lin_content = NullW
            /\ lin_op = "none"
            /\ lin_fit = FALSE
            /\ lin_frees = LinNoFrees

\* an instance that was constructed and never initialized
LinUnused ==
    /\ lin_mem = <<>>
    /\ lin_next_search_block = NullW
    /\ lin_address_start = NullW
    /\ lin_address_end = NullW
    /\ lin_pc = "idle"
    /\ lin_block_size = NullW
    /\ lin_search_block = NullW
    /\ lin_result = NoResult
    /\ lin_content = NullW
    /\ lin_op = "none"
    /\ lin_fit = FALSE
    /\ lin_frees = LinNoFrees

\* LinAllocator::alloc entry, and allocate down to the head of while (1)
LinAllocCall(n) ==
    /\ LinFrame
    /\ lin_pc = "idle"
    /\ primask' = TRUE
    /\ irq_entry' = primask
    /\ lin_block_size' = W(RoundContent(n) + LIN_BLOCK_INFO_SIZE)
    /\ lin_search_block' = lin_next_search_block
    /\ lin_fit' = \E b \in LinBlocks :
                     /\ LinState(lin_mem, b) = StateFree
                     /\ GeW(LinSize(lin_mem, b), W(RoundContent(n) + LIN_BLOCK_INFO_SIZE))
    /\ lin_pc' = "outer"
    /\ lin_op' = "alloc"
    /\ lin_frees' = [LinNoFrees EXCEPT
                        !.due = LinCursorPayload(W(RoundContent(n) + LIN_BLOCK_INFO_SIZE))]
    /\ UNCHANGED <<lin_mem, lin_next_search_block, lin_address_start, lin_address_end,
                   lin_result, lin_content>>

\* if (search_block->state == MemBlock::State::Free)
LinOuter ==
    /\ LinFrame
    /\ lin_pc = "outer"
    /\ lin_pc' = IF ~LinHeaderIn(lin_mem, lin_search_block) THEN "wild"
                 ELSE IF LinState(lin_mem, lin_search_block) = StateFree THEN "inner"
                 ELSE "advance"
    /\ UNCHANGED <<primask, irq_entry, lin_mem, lin_next_search_block, lin_address_start,
                   lin_address_end, lin_block_size, lin_search_block, lin_result,
                   lin_content, lin_op, lin_fit, lin_frees>>

\* one evaluation of  while (absorb_next_block_if_possible(search_block))
\* and, when it is true, of the statement it governs:
\*     if (search_block->size >= block_size) { split_block_if_possible; break; }
\* The break leaves this inner while, not the while (1).
LinInner ==
    /\ LinFrame
    /\ lin_pc = "inner"
    /\ LET b == lin_search_block
           n == LinNextAddress(lin_mem, b)
       IN  IF n /= lin_address_end /\ ~LinHeaderIn(lin_mem, n)
           THEN lin_pc' = "wild" /\ lin_mem' = lin_mem
           ELSE IF LinAbsorbTaken(lin_mem, b)
           THEN LET m1 == LinAbsorbMem(lin_mem, b)
                IN  IF GeW(LinSize(m1, b), lin_block_size)
                    THEN IF InRegion(m1, AddW(AddW(b, lin_block_size), W(LIN_OFF_SIZE)))
                         THEN lin_mem' = LinSplit(m1, b, lin_block_size) /\ lin_pc' = "advance"
                         ELSE lin_mem' = m1 /\ lin_pc' = "wild"
                    ELSE lin_mem' = m1 /\ lin_pc' = "inner"
           ELSE lin_mem' = lin_mem /\ lin_pc' = "advance"
    /\ UNCHANGED <<primask, irq_entry, lin_next_search_block, lin_address_start, lin_address_end,
                   lin_block_size, lin_search_block, lin_result, lin_content, lin_op,
                   lin_fit, lin_frees>>

\* search_block = find_next_block(search_block); the wrap test; return 1
\* through LinAllocator::alloc, which ends with __enable_irq()
LinAdvance ==
    /\ LinFrame
    /\ lin_pc = "advance"
    /\ LET sb == LinFindNextBlock(lin_mem, lin_search_block)
       IN  IF ~LinHeaderIn(lin_mem, sb)
           THEN /\ lin_pc' = "wild"
                /\ UNCHANGED <<primask, irq_entry, lin_search_block, lin_result>>
           ELSE IF /\ LeW(sb, lin_next_search_block)
                   /\ GtW(AddW(sb, LinSize(lin_mem, sb)), lin_next_search_block)
           THEN /\ lin_pc' = "idle"
                /\ lin_result' = OutOfMemory
                /\ primask' = FALSE
                /\ UNCHANGED irq_entry
                /\ lin_search_block' = sb
           ELSE /\ lin_pc' = "outer"
                /\ lin_search_block' = sb
                /\ UNCHANGED <<primask, irq_entry, lin_result>>
    /\ UNCHANGED <<lin_mem, lin_next_search_block, lin_address_start, lin_address_end,
                   lin_block_size, lin_content, lin_op, lin_fit, lin_frees>>

\* LinAllocator::free(content_ptr), wrapped in __disable_irq / __enable_irq
LinFree(content_ptr) ==
    /\ LinFrame
    /\ lin_pc = "idle"
    /\ LET b == SubW(content_ptr, W(LIN_BLOCK_INFO_SIZE))
       IN  IF LinState(lin_mem, b) /= StateUsed
           THEN lin_result' = 1 /\ lin_mem' = lin_mem
           ELSE /\ lin_result' = 0
                /\ lin_mem' = WrWord(lin_mem, AddW(b, W(LIN_OFF_STATE)), StateFree)
    /\ lin_frees' = LinFreed(content_ptr, lin_result')
    /\ primask' = FALSE
    /\ irq_entry' = primask
    /\ lin_op' = "free"
    /\ UNCHANGED <<lin_next_search_block, lin_address_start, lin_address_end, lin_pc,
                   lin_block_size, lin_search_block, lin_content, lin_fit>>

\* the pointers a caller may pass to free: &block->content of the blocks of
\* the partition
LinPointers == {AddW(b, W(LIN_OFF_CONTENT)) : b \in LinBlocks}

LinNext ==
    \/ \E n \in 0..LinMaxRequest : LinAllocCall(n)
    \/ LinOuter
    \/ LinInner
    \/ LinAdvance
    \/ \E p \in LinPointers : LinFree(p)

----------------------------------------------------------------------------
(* AllocatorSeqFit  (tx_memory.cpp 214-371)                                *)

\* bounds: region size in words and request sizes in bytes
SeqMaxWords == 10
SeqMaxRequest == 8

\* sizeof(MemBlock) - sizeof(size_t) for {size_t size; atomic<size_t>
\* ref_count; size_t content}, static_assert-ed to be 2 * sizeof(size_t)
SEQ_BLOCK_INFO_SIZE == 8
\* offsets of the members of AllocatorSeqFit::MemBlock
SEQ_OFF_SIZE == 0
SEQ_OFF_REF_COUNT == 4
SEQ_OFF_CONTENT == 8

SeqSize(m, b) == RdWord(m, AddW(b, W(SEQ_OFF_SIZE)))
SeqRefCount(m, b) == RdWord(m, AddW(b, W(SEQ_OFF_REF_COUNT)))
SeqHeaderIn(m, b) ==
    InRegion(m, AddW(b, W(SEQ_OFF_SIZE))) /\ InRegion(m, AddW(b, W(SEQ_OFF_REF_COUNT)))

\* AllocatorSeqFitImpl::find_next_block
SeqFindNextBlock(m, b) ==
    LET next_address == AddW(b, SeqSize(m, b))
    IN  IF next_address = seq_address_end THEN seq_address_start ELSE next_address

\* address of the block absorb_next_block_if_possible looks at
SeqNextAddress(m, b) == AddW(b, SeqSize(m, b))

\* AllocatorSeqFitImpl::absorb_next_block_if_possible: the returned bool
SeqAbsorbTaken(m, b) ==
    /\ SeqNextAddress(m, b) /= seq_address_end
    /\ ~GtW(SeqRefCount(m, SeqNextAddress(m, b)), NullW)

\* AllocatorSeqFitImpl::absorb_next_block_if_possible: the memory it leaves
\* (next_block_ptr->size += next_block_ptr->size)
SeqAbsorbMem(m, b) ==
    IF SeqAbsorbTaken(m, b)
    THEN LET n == SeqNextAddress(m, b)
         IN  WrWord(m, AddW(n, W(SEQ_OFF_SIZE)), AddW(SeqSize(m, n), SeqSize(m, n)))
    ELSE m

\* AllocatorSeqFitImpl::split_block_if_possible
SeqSplit(m, b, first) ==
    IF GeW(SeqSize(m, b), AddW(first, W(SEQ_BLOCK_INFO_SIZE + 2^2)))
    THEN LET nb == AddW(b, first)
             m1 == WrWord(m, AddW(nb, W(SEQ_OFF_SIZE)), SubW(SeqSize(m, b), first))
             m2 == WrWord(m1, AddW(nb, W(SEQ_OFF_REF_COUNT)), NullW)
         IN  WrWord(m2, AddW(b, W(SEQ_OFF_SIZE)), first)
    ELSE m

SeqWalk == Walk(seq_mem, seq_address_start, seq_address_end, SEQ_OFF_SIZE, Len(seq_mem))

\* AllocatorSeqFit::initialize on a region of 4 * words bytes
SeqInit ==
    \E words \in 1..SeqMaxWords, fill \in FillBytes :
        LET size == 4 * words
            m0 == FreshMem(size, fill)
            m1 == WrWord(m0, AddW(MemBase, W(SEQ_OFF_REF_COUNT)), NullW)
            m2 == WrWord(m1, AddW(MemBase, W(SEQ_OFF_SIZE)), W(size))
        IN  /\ size >= SEQ_BLOCK_INFO_SIZE + 2^2
            /\ seq_mem = m2
            /\ seq_next_search_block = MemBase
            /\ seq_address_start = MemBase
            /\ seq_address_end = AddW(MemBase, W(size))
            /\ seq_pc = "idle"
            /\ seq_block_size = NullW
            /\ seq_search_distance = NullW
            /\ seq_search_block = NullW
            /\ seq_status = NoResult
            /\ seq_result = NullW
            /\ seq_live = {}

\* an instance that was constructed and never initialized
SeqUnused ==
    /\ seq_mem = <<>>
    /\ seq_next_search_block = NullW
    /\ seq_address_start = NullW
    /\ seq_address_end = NullW
    /\ seq_pc = "idle"
    /\ seq_block_size = NullW
    /\ seq_search_distance = NullW
    /\ seq_search_block = NullW
    /\ seq_status = NoResult
    /\ seq_result = NullW
    /\ seq_live = {}

\* AllocatorSeqFit::alloc entry (__disable_irq), and allocate down to the
\* head of while (1)
SeqAllocCall(n) ==
    /\ SeqFrame
    /\ seq_pc = "idle"
    /\ primask' = TRUE
    /\ irq_entry' = primask
    /\ seq_block_size' = W(RoundContent(n) + SEQ_BLOCK_INFO_SIZE)
    /\ seq_search_distance' = NullW
    /\ seq_search_block' = seq_next_search_block
    /\ seq_pc' = "outer"
    /\ UNCHANGED <<seq_mem, seq_next_search_block, seq_address_start, seq_address_end,
                   seq_status, seq_result, seq_live>>

\* if (search_block->ref_count.load(relaxed) == 0)
SeqOuter ==
    /\ SeqFrame
    /\ seq_pc = "outer"
    /\ seq_pc' = IF ~SeqHeaderIn(seq_mem, seq_search_block) THEN "wild"
                 ELSE IF SeqRefCount(seq_mem, seq_search_block) = NullW THEN "absorb"
                 ELSE "advance"
    /\ UNCHANGED <<primask, irq_entry, seq_mem, seq_next_search_block, seq_address_start,
                   seq_address_end, seq_block_size, seq_search_distance,
                   seq_search_block, seq_status, seq_result, seq_live>>

\* One evaluation of  while (absorb_next_block_if_possible(search_block));
\* When it is false the loop is left: if the block fits it is split, claimed
\* (ref_count.store(1)), the cursor moves to it and alloc returns its payload
\* (__enable_irq); otherwise the scan goes on to the next block.
SeqAbsorb ==
    /\ SeqFrame
    /\ seq_pc = "absorb"
    /\ LET b == seq_search_block
           n == SeqNextAddress(seq_mem, b)
       IN  IF n /= seq_address_end /\ ~SeqHeaderIn(seq_mem, n)
           THEN /\ seq_pc' = "wild"
                /\ UNCHANGED <<primask, irq_entry, seq_mem, seq_next_search_block, seq_status,
                               seq_result, seq_live>>
           ELSE IF SeqAbsorbTaken(seq_mem, b)
           THEN /\ seq_mem' = SeqAbsorbMem(seq_mem, b)
                /\ seq_pc' = "absorb"
                /\ UNCHANGED <<primask, irq_entry, seq_next_search_block, seq_status, seq_result,
                               seq_live>>
           ELSE IF GeW(SeqSize(seq_mem, b), seq_block_size)
           THEN LET m1 == SeqSplit(seq_mem, b, seq_block_size)
                IN  /\ seq_mem' = WrWord(m1, AddW(b, W(SEQ_OFF_REF_COUNT)), W(1))
                    /\ seq_next_search_block' = b
                    /\ seq_status' = Success
                    /\ seq_result' = AddW(b, W(SEQ_OFF_CONTENT))
                    /\ seq_live' = seq_live \cup {AddW(b, W(SEQ_OFF_CONTENT))}
                    /\ primask' = FALSE
                    /\ UNCHANGED irq_entry
                    /\ seq_pc' = "idle"
           ELSE /\ seq_pc' = "advance"
                /\ UNCHANGED <<primask, irq_entry, seq_mem, seq_next_search_block, seq_status,
                               seq_result, seq_live>>
    /\ UNCHANGED <<seq_address_start, seq_address_end, seq_block_size,
                   seq_search_distance, seq_search_block>>

\* what the uninitialized local  void * result  of AllocatorSeqFit::alloc may
\* hold when allocate returned 1 without storing to it
SeqIndeterminate == {NullW, seq_result}

\* search_distance += search_block->size; the full-wrap test; find_next_block
SeqAdvance ==
    /\ SeqFrame
    /\ seq_pc = "advance"
    /\ LET d == AddW(seq_search_distance, SeqSize(seq_mem, seq_search_block))
       IN  IF GeW(d, SubW(seq_address_end, seq_address_start))
           THEN /\ seq_pc' = "idle"
                /\ seq_status' = OutOfMemory
                /\ seq_result' \in SeqIndeterminate
                /\ primask' = FALSE
                /\ UNCHANGED irq_entry
                /\ seq_search_distance' = d
                /\ UNCHANGED seq_search_block
           ELSE /\ seq_pc' = "outer"
                /\ seq_search_distance' = d
                /\ seq_search_block' = SeqFindNextBlock(seq_mem, seq_search_block)
                /\ UNCHANGED <<primask, irq_entry, seq_status, seq_result>>
    /\ UNCHANGED <<seq_mem, seq_next_search_block, seq_address_start, seq_address_end,
                   seq_block_size, seq_live>>

\* AllocatorSeqFit::free(content_ptr) on a pointer the caller holds:
\* TX_ASSERT(ref_count == 1) halts otherwise
SeqFree(content_ptr) ==
    /\ SeqFrame
    /\ seq_pc = "idle"
    /\ LET b == SubW(content_ptr, W(SEQ_BLOCK_INFO_SIZE))
       IN  IF SeqRefCount(seq_mem, b) /= W(1)
           THEN seq_pc' = "halt" /\ UNCHANGED <<seq_mem, seq_live>>
           ELSE /\ seq_mem' = WrWord(seq_mem, AddW(b, W(SEQ_OFF_REF_COUNT)),
                                     SubW(SeqRefCount(seq_mem, b), W(1)))
                /\ seq_live' = seq_live \ {content_ptr}
                /\ seq_pc' = "idle"
    /\ UNCHANGED <<primask, irq_entry, seq_next_search_block, seq_address_start, seq_address_end,
                   seq_block_size, seq_search_distance, seq_search_block, seq_status,
                   seq_result>>

SeqNext ==
    \/ \E n \in 0..SeqMaxRequest : SeqAllocCall(n)
    \/ SeqOuter
    \/ SeqAbsorb
    \/ SeqAdvance
    \/ \E p \in seq_live : SeqFree(p)

----------------------------------------------------------------------------
(* AllocatorHalfFit  (tx_memory_halffit.cpp)                               *)

\* bounds: region size in units of BLOCK_ALIGNMENT bytes; largest of the
\* requests that are smaller than the region
HfUnits == 22
HfMaxRequest == 51

HF_BLOCKUSED_INFO_SIZE == 12
HF_MIN_ALLOC_SIZE_LOG2 == 5
HF_MIN_ALLOC_SIZE == 2^HF_MIN_ALLOC_SIZE_LOG2
HF_BLOCK_ALIGNMENT_LOG2 == 3
HF_BLOCK_ALIGNMENT == 2^HF_BLOCK_ALIGNMENT_LOG2
\* offsets of the members of AllocatorHalfFit::MemBlock
HF_OFF_SIZE == 0
HF_OFF_REF_COUNT == 4
HF_OFF_PREV_FREE == 8
HF_OFF_NEXT_FREE == 12

\* floor(log2(n)) for 1 <= n < 2^16
RECURSIVE Log2(_)
Log2(n) == IF n <= 1 THEN 0 ELSE 1 + Log2(n \div 2)

\* 8 * sizeof(size_t) - 1 - __builtin_clz(size), size /= 0
Log2W(w) == IF w[1] > 0 THEN 16 + Log2(w[1]) ELSE Log2(w[2])

\* AllocatorHalfFitImpl::get_order_from_size (size_t arithmetic: it wraps
\* below MIN_ALLOC_SIZE)
HfOrderFromSize(size) == SubW(W(Log2W(size)), W(HF_MIN_ALLOC_SIZE_LOG2))

\* AllocatorHalfFitImpl::next_aligned_address, size > 0:
\* (((size - 1) >> BLOCK_ALIGNMENT_LOG2) + 1) << BLOCK_ALIGNMENT_LOG2
HfNextAligned(size) ==
    LET d == SubW(size, W(1))
    IN  AddW(<<d[1], d[2] - (d[2] % HF_BLOCK_ALIGNMENT)>>, W(HF_BLOCK_ALIGNMENT))

HfSize(m, b) == RdWord(m, AddW(b, W(HF_OFF_SIZE)))
HfRefCount(m, b) == RdWord(m, AddW(b, W(HF_OFF_REF_COUNT)))
HfPrevFree(m, b) == RdWord(m, AddW(b, W(HF_OFF_PREV_FREE)))
HfNextFree(m, b) == RdWord(m, AddW(b, W(HF_OFF_NEXT_FREE)))

\* MemBlock::get_block_footer: its address
HfFooterAddr(m, b) == SubW(AddW(b, HfSize(m, b)), W(4))
\* MemBlock::get_prev_block
HfPrevBlock(m, b) == SubW(b, RdWord(m, SubW(b, W(4))))

\* the four header words of the block at b lie in the region
HfHeaderIn(m, b) == InRegion(m, b) /\ InRegion(m, AddW(b, W(HF_OFF_NEXT_FREE)))
\* header and footer of the block at b lie in the region, size /= 0
HfBlockIn(m, b) ==
    /\ HfHeaderIn(m, b)
    /\ HfSize(m, b) /= NullW
    /\ InRegion(m, HfFooterAddr(m, b))

\* address of free_block_list[i]
HfListSlot(i) == AddW(hf_free_block_list, AddW(AddW(i, i), AddW(i, i)))

\* a memory together with "every access so far was inside the region and
\* every TX_ASSERT so far held"
St(m) == [mem |-> m, ok |-> TRUE, assert |-> TRUE]
Wild(s) == [s EXCEPT !.ok = FALSE]
Failed(s) == [s EXCEPT !.assert = FALSE]
Live(s) == s.ok /\ s.assert
\* a store of one word, once the code got this far
Put(s, a, v) ==
    IF ~Live(s) THEN s
    ELSE IF InRegion(s.mem, a) THEN [s EXCEPT !.mem = WrWord(s.mem, a, v)]
    ELSE Wild(s)

\* register_free_block, lines 119-123: the old head of the list gets its
\* prev_free_block
HfLinkOldHead_Skip(s, b, next_free_block) == s

\* register_free_block, lines 119-123
HfLinkOldHead(s, b, next_free_block) ==
    IF next_free_block = NullW THEN s
    ELSE IF ~HfHeaderIn(s.mem, next_free_block) THEN Wild(s)
    ELSE IF HfPrevFree(s.mem, next_free_block) /= NullW THEN Failed(s)
    ELSE Put(s, AddW(next_free_block, W(HF_OFF_PREV_FREE)), b)

\* register_free_block, lines 119-127, with free_block_list[order] at slot
HfRegisterAt(s, b, slot) ==
    IF ~InRegion(s.mem, slot) THEN Wild(s)
    ELSE Put(Put(Put(HfLinkOldHead(s, b, RdWord(s.mem, slot)),
                     AddW(b, W(HF_OFF_PREV_FREE)), NullW),
                 AddW(b, W(HF_OFF_NEXT_FREE)), RdWord(s.mem, slot)),
             slot, b)

\* AllocatorHalfFitImpl::register_free_block
HfRegisterFreeBlock(s, b) ==
    IF ~Live(s) THEN s
    ELSE IF ~HfBlockIn(s.mem, b) THEN Wild(s)
    ELSE HfRegisterAt(s, b, HfListSlot(HfOrderFromSize(HfSize(s.mem, b))))

\* unregister_free_block, lines 135-143: the predecessor, or the list head,
\* is pointed at the successor
HfUnlinkPrev(s, b, prev_free_block, next_free_block) ==
    IF prev_free_block /= NullW
    THEN Put(s, AddW(prev_free_block, W(HF_OFF_NEXT_FREE)), next_free_block)
    ELSE Put(s, HfListSlot(HfOrderFromSize(HfSize(s.mem, b))), next_free_block)

\* unregister_free_block, lines 145-148: the successor is pointed at the
\* predecessor
HfUnlinkNext(s, prev_free_block, next_free_block) ==
    IF next_free_block /= NullW
    THEN Put(s, AddW(next_free_block, W(HF_OFF_PREV_FREE)), prev_free_block)
    ELSE s

\* AllocatorHalfFitImpl::unregister_free_block
HfUnregisterFreeBlock(s, b) ==
    IF ~Live(s) THEN s
    ELSE IF ~HfBlockIn(s.mem, b) THEN Wild(s)
    ELSE HfUnlinkNext(HfUnlinkPrev(s, b, HfPrevFree(s.mem, b), HfNextFree(s.mem, b)),
                      HfPrevFree(s.mem, b), HfNextFree(s.mem, b))

\* the three stores that make the block at b a free block of the given size:
\* size, footer, ref_count
HfWriteFree(s, b, size) ==
    Put(Put(Put(s, AddW(b, W(HF_OFF_SIZE)), size),
            SubW(AddW(b, size), W(4)), size),
        AddW(b, W(HF_OFF_REF_COUNT)), NullW)

\* the for loop of initialize_management_data from index i
RECURSIVE HfClearList(_, _)
HfClearList(s, i) ==
    IF i = hf_free_block_list_size THEN s
    ELSE HfClearList(Put(s, HfListSlot(W(i)), NullW), i + 1)

\* AllocatorHalfFitImpl::initialize_management_data
HfInitializeManagementData(m) ==
    HfRegisterFreeBlock(
        HfWriteFree(HfClearList(St(m), 0), hf_address_start,
                    SubW(hf_address_end, hf_address_start)),
        hf_address_start)

\* the size allocate works with: size += BLOCKUSED_INFO_SIZE (size_t
\* arithmetic), raised to MIN_ALLOC_SIZE, next_aligned_address
HfAdjust(n) ==
    LET s1 == AddW(n, W(HF_BLOCKUSED_INFO_SIZE))
    IN  HfNextAligned(IF LtW(s1, W(HF_MIN_ALLOC_SIZE)) THEN W(HF_MIN_ALLOC_SIZE) ELSE s1)

\* the while loop of allocate from index: the first index >= i with a
\* non-null free_block_list entry, or free_block_list_size when the loop
\* runs into TX_ASSERT(0)
RECURSIVE HfScanIndex(_, _)
HfScanIndex(m, i) ==
    IF i >= hf_free_block_list_size THEN hf_free_block_list_size
    ELSE IF RdWord(m, HfListSlot(W(i))) /= NullW THEN i
    ELSE HfScanIndex(m, i + 1)

\* a slip in the split of allocate: the remainder is one alignment unit short
HfRemainderSize_Short(block_size, size) ==
    SubW(SubW(block_size, size), W(HF_BLOCK_ALIGNMENT))

\* new_block_ptr->size = block_ptr->size - size
HfRemainderSize(block_size, size) == SubW(block_size, size)

\* allocate, lines 173-184: split the block at b when the size allows
HfSplit(s, b, size) ==
    IF Live(s) /\ GeW(HfSize(s.mem, b), AddW(size, W(HF_MIN_ALLOC_SIZE)))
    THEN Put(Put(HfRegisterFreeBlock(
                     HfWriteFree(s, AddW(b, size),
                                 HfRemainderSize(HfSize(s.mem, b), size)),
                     AddW(b, size)),
                 AddW(b, W(HF_OFF_SIZE)), size),
             SubW(AddW(b, size), W(4)), size)
    ELSE s

\* allocate, lines 169-187, with block_ptr = b
HfAllocateBlock(m, b, size) ==
    <<Put(HfSplit(HfUnregisterFreeBlock(St(m), b), b, size),
          AddW(b, W(HF_OFF_REF_COUNT)), W(1)),
      AddW(b, W(HF_OFF_PREV_FREE))>>

\* allocate, lines 160-187, with the adjusted size and the index the search
\* starts from
HfAllocateFrom(m, size, index) ==
    IF ~LtW(index, W(hf_free_block_list_size)) THEN <<Failed(St(m)), NullW>>
    ELSE IF HfScanIndex(m, Val(index)) >= hf_free_block_list_size
    THEN <<Failed(St(m)), NullW>>
    ELSE HfAllocateBlock(m, RdWord(m, HfListSlot(W(HfScanIndex(m, Val(index))))), size)

\* AllocatorHalfFitImpl::allocate: <<state left, pointer returned>>
HfAllocate(m, n) ==
    HfAllocateFrom(m, HfAdjust(n), AddW(HfOrderFromSize(HfAdjust(n)), W(1)))

\* a slip in the merge with the next block: it never merges
HfMergeNext_Never(m, b, next_block_ptr) == <<St(m), HfSize(m, b)>>

\* a slip in the merge with the next block: the next block is taken off its
\* list and its size is not added
HfMergeNext_NoAdd(m, b, next_block_ptr) ==
    IF next_block_ptr = hf_address_end THEN <<St(m), HfSize(m, b)>>
    ELSE IF ~HfHeaderIn(m, next_block_ptr) THEN <<Wild(St(m)), HfSize(m, b)>>
    ELSE IF HfRefCount(m, next_block_ptr) = NullW
    THEN <<HfUnregisterFreeBlock(St(m), next_block_ptr), HfSize(m, b)>>
    ELSE <<St(m), HfSize(m, b)>>

\* free, lines 197-207: merge with the next block if it is free;
\* <<state, block_size>>
HfMergeNext(m, b, next_block_ptr) ==
    IF next_block_ptr = hf_address_end THEN <<St(m), HfSize(m, b)>>
    ELSE IF ~HfHeaderIn(m, next_block_ptr) THEN <<Wild(St(m)), HfSize(m, b)>>
    ELSE IF HfRefCount(m, next_block_ptr) = NullW
    THEN <<HfUnregisterFreeBlock(St(m), next_block_ptr),
           AddW(HfSize(m, b), HfSize(m, next_block_ptr))>>
    ELSE <<St(m), HfSize(m, b)>>

\* a slip in the merge with the previous block: block_ptr is not moved to
\* the previous block
HfMergePrev_KeepsBlock(r, b) ==
    IF ~Live(r[1]) \/ b = hf_address_start THEN <<r[1], b, r[2]>>
    ELSE IF ~HfHeaderIn(r[1].mem, HfPrevBlock(r[1].mem, b)) THEN <<Wild(r[1]), b, r[2]>>
    ELSE IF HfRefCount(r[1].mem, HfPrevBlock(r[1].mem, b)) = NullW
    THEN <<HfUnregisterFreeBlock(r[1], HfPrevBlock(r[1].mem, b)),
           b,
           AddW(r[2], HfSize(r[1].mem, HfPrevBlock(r[1].mem, b)))>>
    ELSE <<r[1], b, r[2]>>

\* a slip in the merge with the previous block: it never merges
HfMergePrev_Never(r, b) == <<r[1], b, r[2]>>

\* free, lines 209-219: merge with the previous block if it is free;
\* <<state, block_ptr, block_size>>
HfMergePrev(r, b) ==
    IF ~Live(r[1]) \/ b = hf_address_start THEN <<r[1], b, r[2]>>
    ELSE IF ~HfHeaderIn(r[1].mem, HfPrevBlock(r[1].mem, b)) THEN <<Wild(r[1]), b, r[2]>>
    ELSE IF HfRefCount(r[1].mem, HfPrevBlock(r[1].mem, b)) = NullW
    THEN <<HfUnregisterFreeBlock(r[1], HfPrevBlock(r[1].mem, b)),
           HfPrevBlock(r[1].mem, b),
           AddW(r[2], HfSize(r[1].mem, HfPrevBlock(r[1].mem, b)))>>
    ELSE <<r[1], b, r[2]>>

\* a slip at the end of free: the block is registered before its merged
\* size is stored
HfFreeFinish_RegisterFirst(r) == HfWriteFree(HfRegisterFreeBlock(r[1], r[2]), r[2], r[3])

\* free, lines 221-224
HfFreeFinish(r) == HfRegisterFreeBlock(HfWriteFree(r[1], r[2], r[3]), r[2])

\* free, lines 194-224, with block_ptr = b
HfFreeBlock(m, b) ==
    IF ~HfBlockIn(m, b) THEN Wild(St(m))
    ELSE IF HfSize(m, b) /= RdWord(m, HfFooterAddr(m, b)) THEN Failed(St(m))
    ELSE IF ~GtW(HfRefCount(m, b), NullW) THEN Failed(St(m))
    ELSE HfFreeFinish(HfMergePrev(HfMergeNext(m, b, AddW(b, HfSize(m, b))), b))

\* AllocatorHalfFitImpl::free: the state left
HfFreeImpl(m, content_ptr) == HfFreeBlock(m, SubW(content_ptr, W(HF_OFF_PREV_FREE)))

HfWalk == Walk(hf_mem, hf_address_start, hf_address_end, HF_OFF_SIZE, Len(hf_mem))

\* get_unused_size, lines 366-370: the blocks met following next_free_block
\* from block_ptr (at most fuel of them)
RECURSIVE HfListFrom(_, _, _)
HfListFrom(m, block_ptr, fuel) ==
    IF block_ptr = NullW \/ fuel = 0 \/ ~HfHeaderIn(m, block_ptr) THEN <<>>
    ELSE <<block_ptr>> \o HfListFrom(m, HfNextFree(m, block_ptr), fuel - 1)

\* the blocks linked in free_block_list[i]
HfFreeList(m, i) ==
    HfListFrom(m, RdWord(m, HfListSlot(W(i))), Len(m) \div HF_MIN_ALLOC_SIZE)

\* get_unused_size, lines 363-371: the for loop from index i
RECURSIVE HfUnusedFrom(_, _)
HfUnusedFrom(m, i) ==
    IF i >= hf_free_block_list_size THEN NullW
    ELSE AddW(SizeSum(m, HfFreeList(m, i), HF_OFF_SIZE), HfUnusedFrom(m, i + 1))

\* AllocatorHalfFit::get_unused_size
HfUnusedSize(m) == HfUnusedFrom(m, 0)

\* <<address, size>> of the blocks of a list
HfSized(m, list) == {<<list[j], HfSize(m, list[j])>> : j \in 1..Len(list)}

\* <<address, size>> of the blocks linked in the free lists
HfFreeBlocks(m) ==
    UNION {HfSized(m, HfFreeList(m, i)) : i \in 0..(hf_free_block_list_size - 1)}

\* free, lines 200-213: which neighbours of the block at b free finds free
HfMerged(m, b) ==
    LET next == /\ AddW(b, HfSize(m, b)) /= hf_address_end
                /\ HfHeaderIn(m, AddW(b, HfSize(m, b)))
                /\ HfRefCount(m, AddW(b, HfSize(m, b))) = NullW
        prev == /\ b /= hf_address_start
                /\ HfHeaderIn(m, HfPrevBlock(m, b))
                /\ HfRefCount(m, HfPrevBlock(m, b)) = NullW
    IN  IF next /\ prev THEN "both" ELSE IF next THEN "next"
        ELSE IF prev THEN "prev" ELSE "none"

\* what the caller knows before its first call
HfNoCall == [op |-> "none", ptr |-> NullW, req |-> NullW, merged |-> "none"]
HfNoPre == [blocks |-> {}, unused |-> NullW]

\* AllocatorHalfFit::initialize(mem_ptr, size); the bytes from MemBase up to
\* mem_ptr + size are the memory of the model
HfInitializeAt(mem_ptr, size) ==
    \E fill \in FillBytes :
        LET list_size == 1 + Val(HfOrderFromSize(W(size - 1)))
            start == HfNextAligned(AddW(mem_ptr, W(4 * list_size)))
        IN  /\ hf_free_block_list_size = list_size
            /\ hf_free_block_list = mem_ptr
            /\ hf_address_start = start
            /\ hf_address_end = AddW(mem_ptr, W(size))
            /\ GtW(AddW(mem_ptr, W(size)), start) /\ GtW(start, mem_ptr)
            /\ hf_mem = HfInitializeManagementData(
                            FreshMem(OffW(mem_ptr)[2] + size, fill)).mem
            /\ hf_lock = FALSE
            /\ hf_primask \in BOOLEAN
            /\ hf_pc = "idle"
            /\ hf_live = {}
            /\ hf_op = HfNoCall
            /\ hf_pre = HfNoPre
            /\ hf_freed = {}
            /\ hf_test_ptr = <<>>
            /\ hf_test_i = 0
            /\ hf_clear_pc = "idle"
            /\ hf_ended = 0

\* AllocatorHalfFit::initialize(mem_ptr = MemBase, size)
HfInitialize(size) == HfInitializeAt(MemBase, size)

\* initialize on a region of HfUnits alignment units, outside unit_test1
HfInit == HfInitialize(HF_BLOCK_ALIGNMENT * HfUnits) /\ hf_test_pc = "off"

\* an instance that was constructed and never initialized
HfUnused ==
    /\ hf_mem = <<>>
    /\ hf_free_block_list = NullW
    /\ hf_free_block_list_size = 0
    /\ hf_address_start = NullW
    /\ hf_address_end = NullW
    /\ hf_lock = FALSE
    /\ hf_primask = FALSE
    /\ hf_pc = "idle"
    /\ hf_live = {}
    /\ hf_op = HfNoCall
    /\ hf_pre = HfNoPre
    /\ hf_freed = {}
    /\ hf_test_pc = "off"
    /\ hf_test_ptr = <<>>
    /\ hf_test_i = 0
    /\ hf_clear_pc = "idle"
    /\ hf_ended = 0

\* where an operation that ran into a failed TX_ASSERT (tx_assert spins on
\* bkpt) or left the region stops
HfStop(s) == IF ~s.ok THEN "wild" ELSE IF ~s.assert THEN "halt" ELSE "idle"

\* what alloc and free leave behind after the allocator work that ended in
\* state s: Spinlock::release, unless the work never returned
HfLeave(s, live) ==
    /\ hf_mem' = s.mem
    /\ hf_pc' = HfStop(s)
    /\ hf_primask' = primask
    /\ IF Live(s)
       THEN /\ hf_live' = live
            /\ hf_lock' = FALSE
            /\ primask' = primask
       ELSE /\ UNCHANGED hf_live
            /\ hf_lock' = TRUE
            /\ primask' = TRUE
    /\ UNCHANGED <<hf_free_block_list, hf_free_block_list_size, hf_address_start,
                   hf_address_end>>

\* alloc once allocate has produced r = <<state, pointer>>
HfAllocDone(r, n) ==
    /\ HfLeave(r[1], hf_live \cup {[ptr |-> r[2], req |-> n]})
    /\ hf_op' = [op |-> "alloc", ptr |-> IF Live(r[1]) THEN r[2] ELSE NullW, req |-> n,
                 merged |-> "none"]

\* AllocatorHalfFit::alloc(content_size): Spinlock::acquire, allocate,
\* Spinlock::release
HfAllocCall(n) ==
    /\ HfFrame
    /\ hf_pc = "idle"
    /\ ~hf_lock
    /\ HfAllocDone(HfAllocate(hf_mem, n), n)
    /\ hf_pre' = [blocks |-> HfFreeBlocks(hf_mem), unused |-> HfUnusedSize(hf_mem)]
    /\ hf_freed' = {}

\* the free undoes the alloc made just before it
HfUndoes(content_ptr) == hf_op.op = "alloc" /\ hf_op.ptr = content_ptr

\* AllocatorHalfFit::free(content_ptr) on a pointer the caller holds
HfFreeCall(a) ==
    /\ HfFrame
    /\ hf_pc = "idle"
    /\ ~hf_lock
    /\ HfLeave(HfFreeImpl(hf_mem, a.ptr), hf_live \ {a})
    /\ hf_op' = [op |-> IF HfUndoes(a.ptr) THEN "undo" ELSE "free", ptr |-> a.ptr,
                 req |-> NullW,
                 merged |-> HfMerged(hf_mem, SubW(a.ptr, W(HF_OFF_PREV_FREE)))]
    /\ hf_pre' = IF HfUndoes(a.ptr) THEN hf_pre ELSE HfNoPre
    /\ hf_freed' = hf_freed \cup {[ptr |-> a.ptr,
                                   merged |-> HfMerged(hf_mem, SubW(a.ptr, W(HF_OFF_PREV_FREE)))]}

\* clear once initialize_management_data has left s
HfClearDone(s) == hf_mem' = s.mem /\ hf_pc' = HfStop(s)

\* AllocatorHalfFit::clear: no lock is taken; the caller gives up every
\* pointer it holds
HfClearCall ==
    /\ HfFrame
    /\ hf_pc = "idle"
    /\ ~hf_lock
    /\ HfClearDone(HfInitializeManagementData(hf_mem))
    /\ hf_live' = {}
    /\ hf_op' = [HfNoCall EXCEPT !.op = "clear"]
    /\ hf_pre' = HfNoPre
    /\ hf_freed' = {}
    /\ UNCHANGED <<primask, hf_free_block_list, hf_free_block_list_size,
                   hf_address_start, hf_address_end, hf_lock, hf_primask>>

\* the calls of a caller that is not unit_test1
HfOutsideTest ==
    /\ hf_test_pc = "off"
    /\ hf_clear_pc = "idle"
    /\ UNCHANGED <<hf_test_pc, hf_test_ptr, hf_test_i, hf_clear_pc, hf_ended>>

HfAlloc(n) == HfOutsideTest /\ HfAllocCall(n)

HfFree(a) == HfOutsideTest /\ HfFreeCall(a)

HfClear == HfOutsideTest /\ HfClearCall

\* the request sizes tried: two that the region can serve, and one that
\* makes size += BLOCKUSED_INFO_SIZE wrap to 0
HfRequests == {W(20), W(HfMaxRequest), SubW(NullW, W(HF_BLOCKUSED_INFO_SIZE))}

HfNext ==
    \/ \E n \in HfRequests : HfAlloc(n)
    \/ \E a \in hf_live : HfFree(a)
    \/ HfClear

----------------------------------------------------------------------------
(* AutoLinAlloc and AutoLinAlloc::SharedPtr  (tx_automemory.cpp / .hpp)    *)

\* bounds: region size in words; largest request in bytes; alloc calls made;
\* copies alive of one handle
AutoWords == 11
AutoMaxRequest == 5
AutoMaxCalls == 4
AutoMaxCopies == 1

\* the execution contexts that may call alloc (two cores, or a thread and
\* the interrupt handler preempting it)
AutoContexts == {1, 2}

\* struct MemBlock {size_t size; std::atomic<size_t> ref_count; char content;}
\* is padded to the alignment of size_t
AUTO_SIZEOF_MEMBLOCK == 12
AUTO_OFF_SIZE == 0
AUTO_OFF_REF_COUNT == 4
AUTO_OFF_CONTENT == 8
\* BLOCK_INFO_SIZE = sizeof(MemBlock) - sizeof(char)
AUTO_BLOCK_INFO_SIZE == AUTO_SIZEOF_MEMBLOCK - 1
AUTO_MIN_ALLOC_SIZE_LOG2 == 2
AUTO_BYTE_PER_WORD_LOG2 == 2

\* a word access at address a is misaligned (the region starts word-aligned)
AutoMisaligned(a) == a[2] % 4 /= 0

\* the byte at address a: of the region, or of the memory around it
AutoByte(m, a) ==
    IF IsSmall(OffW(a)) /\ OffW(a)[2] < Len(m) THEN m[OffW(a)[2] + 1] ELSE auto_outside

\* *(size_t *)a, wherever a points
AutoLoad(m, a) ==
    <<AutoByte(m, AddW(a, W(2))) + 256 * AutoByte(m, AddW(a, W(3))),
      AutoByte(m, a) + 256 * AutoByte(m, AddW(a, W(1)))>>

AutoSize(m, b) == AutoLoad(m, AddW(b, W(AUTO_OFF_SIZE)))
AutoRefCount(m, b) == AutoLoad(m, AddW(b, W(AUTO_OFF_REF_COUNT)))

\* size and ref_count of the block at b lie in the region
AutoHeaderIn(m, b) == InRegion(m, b) /\ InRegion(m, AddW(b, W(AUTO_OFF_REF_COUNT)))

\* allocate, lines 101-107: block_size for a request of n bytes
AutoBlockSize(n) ==
    LET c == IF n < 2^AUTO_MIN_ALLOC_SIZE_LOG2 THEN 2^AUTO_MIN_ALLOC_SIZE_LOG2 ELSE n
    IN  AddW(W((((c - 1) \div 2^AUTO_BYTE_PER_WORD_LOG2) + 1) * 2^AUTO_BYTE_PER_WORD_LOG2),
             W(AUTO_BLOCK_INFO_SIZE))

\* AutoLinAllocImpl::find_next_block
AutoFindNextBlock(m, b) ==
    IF AddW(b, AutoSize(m, b)) = auto_address_end THEN auto_address_start
    ELSE AddW(b, AutoSize(m, b))

\* The while loop of get_contiguous_free_size from end_address:
\* <<end_address reached, how the loop ended, a misaligned word was read>>.
\* The loop ends "ok" at address_end or at a block in use; it never ends
\* ("hang") at a free block of size 0; "lost" after more iterations than the
\* region has bytes.
RECURSIVE AutoContiguousEnd(_, _, _)
AutoContiguousEnd(m, end_address, fuel) ==
    IF end_address = auto_address_end THEN <<end_address, "ok", FALSE>>
    ELSE IF AutoRefCount(m, end_address) /= NullW
    THEN <<end_address, "ok", AutoMisaligned(end_address)>>
    ELSE IF AutoSize(m, end_address) = NullW
    THEN <<end_address, "hang", AutoMisaligned(end_address)>>
    ELSE IF fuel = 0 THEN <<end_address, "lost", AutoMisaligned(end_address)>>
    ELSE LET rest == AutoContiguousEnd(m, AddW(end_address, AutoSize(m, end_address)),
                                       fuel - 1)
         IN  <<rest[1], rest[2], rest[3] \/ AutoMisaligned(end_address)>>

\* split_block_if_possible does split the block at b
AutoSplits(s, b, first_block_size) ==
    /\ Live(s)
    /\ GeW(AutoSize(s.mem, b),
           AddW(first_block_size, W(AUTO_BLOCK_INFO_SIZE + 2^AUTO_MIN_ALLOC_SIZE_LOG2)))

\* AutoLinAllocImpl::split_block_if_possible
AutoSplit(s, b, first_block_size) ==
    IF AutoSplits(s, b, first_block_size)
    THEN Put(Put(Put(s, AddW(AddW(b, first_block_size), W(AUTO_OFF_SIZE)),
                     SubW(AutoSize(s.mem, b), first_block_size)),
                 AddW(AddW(b, first_block_size), W(AUTO_OFF_REF_COUNT)), NullW),
             AddW(b, W(AUTO_OFF_SIZE)), first_block_size)
    ELSE s

\* What one iteration of the while (1) of allocate leaves: the memory state,
\* how the iteration ended ("claim": break; "fail": return 1; "scan": next
\* iteration; "hang", "lost"), search_block, and whether a word was accessed
\* at a misaligned address.
AutoIteration(s, out, search_block, misaligned) ==
    [st |-> s, out |-> out, sb |-> search_block, unal |-> misaligned]

\* a slip at the return 1 of allocate: the block the scan gives up at is
\* marked as in use
AutoArrive_Claims(s, next, misaligned) ==
    IF ~AutoHeaderIn(s.mem, next) THEN AutoIteration(s, "lost", next, misaligned)
    ELSE IF /\ LeW(next, auto_next_search_block)
            /\ GtW(AddW(next, AutoSize(s.mem, next)), auto_next_search_block)
    THEN AutoIteration(Put(s, AddW(next, W(AUTO_OFF_REF_COUNT)), W(1)), "fail", next,
                       misaligned \/ AutoMisaligned(next))
    ELSE AutoIteration(s, "scan", next, misaligned)

\* allocate, lines 124-128, with search_block already moved to next
AutoArrive(s, next, misaligned) ==
    IF ~AutoHeaderIn(s.mem, next) THEN AutoIteration(s, "lost", next, misaligned)
    ELSE IF /\ LeW(next, auto_next_search_block)
            /\ GtW(AddW(next, AutoSize(s.mem, next)), auto_next_search_block)
    THEN AutoIteration(s, "fail", next, misaligned \/ AutoMisaligned(next))
    ELSE AutoIteration(s, "scan", next, misaligned)

\* allocate, lines 122-128
AutoMoveOn(s, search_block, misaligned) ==
    IF ~Live(s) THEN AutoIteration(s, "scan", search_block, misaligned)
    ELSE AutoArrive(s, AutoFindNextBlock(s.mem, search_block), misaligned)

\* allocate, lines 115-128, after search_block->size was stored in s
AutoFitOrMoveOn(s, search_block, block_size, misaligned) ==
    IF Live(s) /\ GeW(AutoSize(s.mem, search_block), block_size)
    THEN AutoIteration(AutoSplit(s, search_block, block_size), "claim", search_block,
                       misaligned \/ (/\ AutoSplits(s, search_block, block_size)
                                      /\ AutoMisaligned(AddW(search_block, block_size))))
    ELSE AutoMoveOn(s, search_block, misaligned)

\* allocate, lines 114-128, with free = what get_contiguous_free_size found
AutoTryBlock(m, search_block, block_size, free) ==
    IF free[2] /= "ok" THEN AutoIteration(St(m), free[2], search_block, free[3])
    ELSE AutoFitOrMoveOn(Put(St(m), AddW(search_block, W(AUTO_OFF_SIZE)),
                             SubW(free[1], search_block)),
                         search_block, block_size, free[3])

\* allocate, lines 112-128: one iteration of the while (1)
AutoScanIteration(m, search_block, block_size) ==
    IF AutoRefCount(m, search_block) = NullW
    THEN AutoTryBlock(m, search_block, block_size,
                      AutoContiguousEnd(m, search_block, Len(m)))
    ELSE AutoMoveOn(St(m), search_block, AutoMisaligned(search_block))

\* what a context that is not inside alloc remembers of the call
AutoNoPre == [mem |-> <<>>, next_search_block |-> NullW, alone |-> FALSE]

\* context c enters alloc: it remembers the region and the cursor, and no
\* context is alone inside alloc any more unless all others are idle
AutoEnter(c) ==
    [d \in AutoContexts |->
        IF d = c
        THEN [mem |-> auto_mem, next_search_block |-> auto_next_search_block,
              alone |-> \A e \in AutoContexts \ {c} : auto_pc[e] = "idle"]
        ELSE [auto_pre[d] EXCEPT !.alone = FALSE]]

\* AutoLinAlloc::initialize(mem_ptr = MemBase, size = 4 * AutoWords) on a
\* region and surroundings of arbitrary content
AutoInit ==
    \E fill \in FillBytes : \E outside \in FillBytes :
        /\ 4 * AutoWords >= AUTO_BLOCK_INFO_SIZE + 2^AUTO_MIN_ALLOC_SIZE_LOG2
        /\ auto_mem = WrWord(WrWord(FreshMem(4 * AutoWords, fill),
                                    AddW(MemBase, W(AUTO_OFF_REF_COUNT)), NullW),
                             AddW(MemBase, W(AUTO_OFF_SIZE)), W(4 * AutoWords))
        /\ auto_outside = outside
        /\ auto_next_search_block = MemBase
        /\ auto_address_start = MemBase
        /\ auto_address_end = AddW(MemBase, W(4 * AutoWords))
        /\ auto_allocation_lock = FALSE
        /\ auto_pc = [c \in AutoContexts |-> "idle"]
        /\ auto_block_size = [c \in AutoContexts |-> NullW]
        /\ auto_search_block = [c \in AutoContexts |-> NullW]
        /\ auto_result = [c \in AutoContexts |-> NullW]
        /\ auto_handles = {}
        /\ auto_calls = 0
        /\ auto_pre = [c \in AutoContexts |-> AutoNoPre]

\* an instance that was constructed and never initialized
AutoUnused ==
    /\ auto_mem = <<>>
    /\ auto_outside = 0
    /\ auto_next_search_block = NullW
    /\ auto_address_start = NullW
    /\ auto_address_end = NullW
    /\ auto_allocation_lock = FALSE
    /\ auto_pc = [c \in AutoContexts |-> "idle"]
    /\ auto_block_size = [c \in AutoContexts |-> NullW]
    /\ auto_search_block = [c \in AutoContexts |-> NullW]
    /\ auto_result = [c \in AutoContexts |-> NullW]
    /\ auto_handles = {}
    /\ auto_calls = 0
    /\ auto_pre = [c \in AutoContexts |-> AutoNoPre]

\* no context has faulted on a misaligned access or written outside the
\* region
AutoRunning == \A c \in AutoContexts : auto_pc[c] \notin {"fault", "wild"}

\* the request sizes tried: two that the region can serve, and one as large
\* as the region, which no free span holds
AutoRequests == {4, AutoMaxRequest, 4 * AutoWords}

\* AutoLinAlloc::alloc(content_size) is entered by context c
AutoAllocCall(c, n) ==
    /\ AutoFrame
    /\ AutoRunning
    /\ auto_pc[c] = "idle"
    /\ auto_calls < AutoMaxCalls
    /\ auto_calls' = auto_calls + 1
    /\ auto_pc' = [auto_pc EXCEPT ![c] = "acquire"]
    /\ auto_block_size' = [auto_block_size EXCEPT ![c] = AutoBlockSize(n)]
    /\ auto_result' = [auto_result EXCEPT ![c] = NullW]
    /\ auto_pre' = AutoEnter(c)
    /\ UNCHANGED <<primask, auto_mem, auto_outside, auto_next_search_block,
                   auto_address_start, auto_address_end, auto_allocation_lock,
                   auto_search_block, auto_handles>>

\* alloc, line 215: one evaluation of
\* while (!allocation_lock.exchange(true, acquire)); when the loop is left,
\* allocate starts with search_block = next_search_block
AutoAcquire(c) ==
    /\ AutoFrame
    /\ AutoRunning
    /\ auto_pc[c] = "acquire"
    /\ auto_allocation_lock' = TRUE
    /\ IF auto_allocation_lock
       THEN /\ auto_pc' = [auto_pc EXCEPT ![c] = "scan"]
            /\ auto_search_block' = [auto_search_block EXCEPT ![c] = auto_next_search_block]
       ELSE UNCHANGED <<auto_pc, auto_search_block>>
    /\ UNCHANGED <<primask, auto_calls, auto_mem, auto_outside, auto_next_search_block,
                   auto_address_start, auto_address_end, auto_block_size,
                   auto_result, auto_handles, auto_pre>>

\* where context c is after an iteration that ended in out
AutoAfter(out) ==
    CASE out = "claim" -> "claim"
      [] out = "fail" -> "release"
      [] out = "scan" -> "scan"
      [] out = "hang" -> "hang"
      [] OTHER -> "wild"

\* the effect of an iteration r of the while (1) of allocate on context c; a
\* misaligned word access either is carried out or faults
AutoScanDone(c, r) ==
    \E fault \in (IF r.unal THEN BOOLEAN ELSE {FALSE}) :
        IF fault
        THEN /\ auto_pc' = [auto_pc EXCEPT ![c] = "fault"]
             /\ UNCHANGED <<auto_mem, auto_search_block>>
        ELSE IF ~r.st.ok
        THEN /\ auto_pc' = [auto_pc EXCEPT ![c] = "wild"]
             /\ UNCHANGED <<auto_mem, auto_search_block>>
        ELSE /\ auto_pc' = [auto_pc EXCEPT ![c] = AutoAfter(r.out)]
             /\ auto_mem' = r.st.mem
             /\ auto_search_block' = [auto_search_block EXCEPT ![c] = r.sb]

\* allocate, lines 112-128: one iteration of the while (1)
AutoScan(c) ==
    /\ AutoFrame
    /\ AutoRunning
    /\ auto_pc[c] = "scan"
    /\ AutoScanDone(c, AutoScanIteration(auto_mem, auto_search_block[c], auto_block_size[c]))
    /\ UNCHANGED <<primask, auto_calls, auto_outside, auto_next_search_block, auto_address_start,
                   auto_address_end, auto_allocation_lock, auto_block_size,
                   auto_result, auto_handles, auto_pre>>

\* allocate, lines 132-136
AutoClaim(c) ==
    /\ AutoFrame
    /\ AutoRunning
    /\ auto_pc[c] = "claim"
    /\ \E fault \in (IF AutoMisaligned(auto_search_block[c]) THEN BOOLEAN ELSE {FALSE}) :
          IF fault
          THEN /\ auto_pc' = [auto_pc EXCEPT ![c] = "fault"]
               /\ UNCHANGED <<auto_mem, auto_result, auto_next_search_block>>
          ELSE /\ auto_pc' = [auto_pc EXCEPT ![c] = "release"]
               /\ auto_mem' = WrWord(auto_mem,
                                     AddW(auto_search_block[c], W(AUTO_OFF_REF_COUNT)), W(1))
               /\ auto_result' = [auto_result EXCEPT
                                     ![c] = AddW(auto_search_block[c], W(AUTO_OFF_CONTENT))]
               /\ auto_next_search_block' = auto_search_block[c]
    /\ UNCHANGED <<primask, auto_calls, auto_outside, auto_address_start, auto_address_end,
                   auto_allocation_lock, auto_block_size, auto_search_block,
                   auto_handles, auto_pre>>

\* the handles the caller holds, one record per successful alloc: the
\* payload pointer, a serial number among the allocations that returned this
\* pointer, the block_size asked for, and the number of SharedPtr objects
\* that share it
AutoNewHandle(mem_ptr, block_size) ==
    [ptr |-> mem_ptr,
     gen |-> CHOOSE g \in 1..(AutoMaxCalls + 1) :
                /\ \A h \in auto_handles : ~(h.ptr = mem_ptr /\ h.gen = g)
                /\ \A k \in 1..(g - 1) : \E h \in auto_handles : h.ptr = mem_ptr /\ h.gen = k,
     size |-> block_size,
     n |-> 1]

\* alloc, lines 220-224: the lock is released and result returned
AutoRelease(c) ==
    /\ AutoFrame
    /\ AutoRunning
    /\ auto_pc[c] = "release"
    /\ auto_allocation_lock' = FALSE
    /\ auto_pc' = [auto_pc EXCEPT ![c] = "idle"]
    /\ auto_handles' = IF auto_result[c] = NullW THEN auto_handles
                       ELSE auto_handles \cup {AutoNewHandle(auto_result[c], auto_block_size[c])}
    /\ auto_pre' = [auto_pre EXCEPT ![c] = AutoNoPre]
    /\ UNCHANGED <<primask, auto_calls, auto_mem, auto_outside, auto_next_search_block,
                   auto_address_start, auto_address_end, auto_block_size,
                   auto_search_block, auto_result>>

\* the MemBlock * that increase_ref_count, decrease_ref_count, get_size and
\* get_ref_count compute from mem_ptr
AutoHandleBlock(mem_ptr) == SubW(mem_ptr, W(AUTO_BLOCK_INFO_SIZE))

\* block_ptr->ref_count.fetch_add(delta) through a handle
AutoFetchAdd(m, mem_ptr, delta) ==
    Put(St(m), AddW(AutoHandleBlock(mem_ptr), W(AUTO_OFF_REF_COUNT)),
        AddW(AutoLoad(m, AddW(AutoHandleBlock(mem_ptr), W(AUTO_OFF_REF_COUNT))), delta))

\* the effect on memory of a handle operation that left s; a misaligned
\* atomic access either is carried out or faults
AutoHandleDone(c, s, mem_ptr, handles) ==
    \E fault \in (IF AutoMisaligned(AddW(AutoHandleBlock(mem_ptr), W(AUTO_OFF_REF_COUNT)))
                  THEN BOOLEAN ELSE {FALSE}) :
        IF fault
        THEN /\ auto_pc' = [auto_pc EXCEPT ![c] = "fault"]
             /\ UNCHANGED <<auto_mem, auto_handles>>
        ELSE IF ~s.ok
        THEN /\ auto_pc' = [auto_pc EXCEPT ![c] = "wild"]
             /\ UNCHANGED <<auto_mem, auto_handles>>
        ELSE /\ auto_mem' = s.mem
             /\ auto_handles' = handles
             /\ UNCHANGED auto_pc

\* SharedPtr(SharedPtr const & b), operator=(SharedPtr const & b) on an empty
\* handle: one more SharedPtr shares h
AutoCopy(c, h) ==
    /\ AutoFrame
    /\ AutoRunning
    /\ \A d \in AutoContexts : auto_pc[d] = "idle"
    /\ h.n <= AutoMaxCopies
    /\ AutoHandleDone(c, AutoFetchAdd(auto_mem, h.ptr, W(1)), h.ptr,
                      (auto_handles \ {h}) \cup {[h EXCEPT !.n = h.n + 1]})
    /\ UNCHANGED <<primask, auto_calls, auto_outside, auto_next_search_block, auto_address_start,
                   auto_address_end, auto_allocation_lock, auto_block_size,
                   auto_search_block, auto_result, auto_pre>>

\* ~SharedPtr on one of the SharedPtr objects that share h
AutoDrop(c, h) ==
    /\ AutoFrame
    /\ AutoRunning
    /\ \A d \in AutoContexts : auto_pc[d] = "idle"
    /\ AutoHandleDone(c, AutoFetchAdd(auto_mem, h.ptr, SubW(NullW, W(1))), h.ptr,
                      IF h.n = 1 THEN auto_handles \ {h}
                      ELSE (auto_handles \ {h}) \cup {[h EXCEPT !.n = h.n - 1]})
    /\ UNCHANGED <<primask, auto_calls, auto_outside, auto_next_search_block, auto_address_start,
                   auto_address_end, auto_allocation_lock, auto_block_size,
                   auto_search_block, auto_result, auto_pre>>

\* the steps of one alloc call in context c
AutoAllocStep(c) ==
    \/ \E n \in AutoRequests : AutoAllocCall(c, n)
    \/ AutoAcquire(c)
    \/ AutoScan(c)
    \/ AutoClaim(c)
    \/ AutoRelease(c)

\* a single caller context: allocs and handle operations one after another
AutoNext ==
    \/ AutoAllocStep(1)
    \/ \E h \in auto_handles : AutoCopy(1, h)
    \/ \E h \in auto_handles : AutoDrop(1, h)

\* a single caller context that allocates and drops handles, and never
\* copies one
AutoDropNext ==
    \/ AutoAllocStep(1)
    \/ \E h \in auto_handles : AutoDrop(1, h)

\* alloc calls of the contexts interleaved
AutoConcNext == \E c \in AutoContexts : AutoAllocStep(c)

----------------------------------------------------------------------------
(* AutoLinAlloc::SharedPtr objects  (tx_automemory.hpp 27-78)              *)

\* bounds: number of SharedPtr members run in one behaviour
SpMaxOps == 4

\* the SharedPtr variables of the caller
SpObjects == {1, 2}

\* what sp_mem_ptr holds for a variable whose object is not constructed
SpNoObject == <<>>

SpAlive(o) == sp_mem_ptr[o] /= SpNoObject

\* no SharedPtr object is constructed
SpInit ==
    /\ sp_mem_ptr = [o \in SpObjects |-> SpNoObject]
    /\ sp_op = [op |-> "none", dst |-> 0, src |-> 0]
    /\ sp_count = 0

\* the atomic access of increase_ref_count / decrease_ref_count through
\* mem_ptr is misaligned
SpMisaligned(mem_ptr) ==
    /\ mem_ptr /= NullW
    /\ AutoMisaligned(AddW(AutoHandleBlock(mem_ptr), W(AUTO_OFF_REF_COUNT)))

\* if (mem_ptr != nullptr) {increase_ref_count();}
SpIncrease(s, mem_ptr) ==
    IF mem_ptr = NullW \/ ~Live(s) THEN s ELSE AutoFetchAdd(s.mem, mem_ptr, W(1))

\* if (mem_ptr != nullptr) {decrease_ref_count();}
SpDecrease(s, mem_ptr) ==
    IF mem_ptr = NullW \/ ~Live(s) THEN s
    ELSE AutoFetchAdd(s.mem, mem_ptr, SubW(NullW, W(1)))

\* a member that ran to its end: memory s, the objects in ptrs
SpFinish(s, ptrs, op) ==
    IF ~s.ok
    THEN /\ auto_pc' = [auto_pc EXCEPT ![1] = "wild"]
         /\ UNCHANGED <<auto_mem, sp_mem_ptr, sp_op>>
    ELSE /\ auto_mem' = s.mem
         /\ sp_mem_ptr' = ptrs
         /\ sp_op' = op
         /\ UNCHANGED auto_pc

\* a member that faulted on a misaligned atomic access, memory being s
SpFault(s) ==
    /\ auto_pc' = [auto_pc EXCEPT ![1] = "fault"]
    /\ auto_mem' = s.mem
    /\ UNCHANGED <<sp_mem_ptr, sp_op>>

\* the effect of a member with at most one atomic access, through mem_ptr;
\* a misaligned atomic access either is carried out or faults
SpDone(s, mem_ptr, ptrs, op) ==
    \E fault \in (IF SpMisaligned(mem_ptr) THEN BOOLEAN ELSE {FALSE}) :
        IF fault THEN SpFault(St(auto_mem)) ELSE SpFinish(s, ptrs, op)

\* what every SharedPtr member needs and leaves alone
SpStep ==
    /\ SpFrame
    /\ AutoRunning
    /\ \A c \in AutoContexts : auto_pc[c] = "idle"
    /\ sp_count < SpMaxOps
    /\ sp_count' = sp_count + 1
    /\ UNCHANGED <<primask, auto_calls, auto_outside, auto_next_search_block,
                   auto_address_start, auto_address_end, auto_allocation_lock,
                   auto_block_size, auto_search_block, auto_result, auto_pre>>

\* SharedPtr d = a.alloc(n): the object returned by alloc (h) becomes d
SpAdopt(d, h) ==
    /\ SpStep
    /\ ~SpAlive(d)
    /\ auto_handles' = auto_handles \ {h}
    /\ SpFinish(St(auto_mem), [sp_mem_ptr EXCEPT ![d] = h.ptr],
                [op |-> "adopt", dst |-> d, src |-> 0])

\* SharedPtr(void)
SpDefault(d) ==
    /\ SpStep
    /\ ~SpAlive(d)
    /\ UNCHANGED auto_handles
    /\ SpFinish(St(auto_mem), [sp_mem_ptr EXCEPT ![d] = NullW],
                [op |-> "default", dst |-> d, src |-> 0])

\* SharedPtr(SharedPtr const & b)
SpCopyCtor(d, b) ==
    /\ SpStep
    /\ ~SpAlive(d) /\ SpAlive(b)
    /\ UNCHANGED auto_handles
    /\ SpDone(SpIncrease(St(auto_mem), sp_mem_ptr[b]), sp_mem_ptr[b],
              [sp_mem_ptr EXCEPT ![d] = sp_mem_ptr[b]],
              [op |-> "copy_ctor", dst |-> d, src |-> b])

\* SharedPtr(SharedPtr && b)
SpMoveCtor(d, b) ==
    /\ SpStep
    /\ ~SpAlive(d) /\ SpAlive(b)
    /\ UNCHANGED auto_handles
    /\ SpFinish(St(auto_mem), [sp_mem_ptr EXCEPT ![d] = sp_mem_ptr[b], ![b] = NullW],
                [op |-> "move_ctor", dst |-> d, src |-> b])

\* ~SharedPtr(void)
SpDtor(d) ==
    /\ SpStep
    /\ SpAlive(d)
    /\ UNCHANGED auto_handles
    /\ SpDone(SpDecrease(St(auto_mem), sp_mem_ptr[d]), sp_mem_ptr[d],
              [sp_mem_ptr EXCEPT ![d] = SpNoObject],
              [op |-> "dtor", dst |-> d, src |-> 0])

\* operator=(SharedPtr const & b): the increase through b.mem_ptr, then the
\* decrease through this->mem_ptr; the first misaligned access may fault
SpCopyAssign(d, b) ==
    /\ SpStep
    /\ SpAlive(d) /\ SpAlive(b) /\ d /= b
    /\ UNCHANGED auto_handles
    /\ \/ SpMisaligned(sp_mem_ptr[b]) /\ SpFault(St(auto_mem))
       \/ /\ ~SpMisaligned(sp_mem_ptr[b]) /\ SpMisaligned(sp_mem_ptr[d])
          /\ Live(SpIncrease(St(auto_mem), sp_mem_ptr[b]))
          /\ SpFault(SpIncrease(St(auto_mem), sp_mem_ptr[b]))
       \/ SpFinish(SpDecrease(SpIncrease(St(auto_mem), sp_mem_ptr[b]), sp_mem_ptr[d]),
                   [sp_mem_ptr EXCEPT ![d] = sp_mem_ptr[b]],
                   [op |-> "copy_assign", dst |-> d, src |-> b])

\* operator=(SharedPtr && b)
SpMoveAssign(d, b) ==
    /\ SpStep
    /\ SpAlive(d) /\ SpAlive(b) /\ d /= b
    /\ UNCHANGED auto_handles
    /\ SpDone(SpDecrease(St(auto_mem), sp_mem_ptr[d]), sp_mem_ptr[d],
              [sp_mem_ptr EXCEPT ![d] = sp_mem_ptr[b]],
              [op |-> "move_assign", dst |-> d, src |-> b])

\* the exclusive or of two naturals below 2^n
RECURSIVE XorBits(_, _, _)
XorBits(x, y, n) ==
    IF n = 0 THEN 0
    ELSE ((x + y) % 2) + 2 * XorBits(x \div 2, y \div 2, n - 1)

\* (size_t) x ^ (size_t) y
XorW(x, y) == <<XorBits(x[1], y[1], 16), XorBits(x[2], y[2], 16)>>

\* the three statements of swap, run in order on the objects ptrs; d is
\* *this and b the argument, which may be the same object
SpSwapFirst(ptrs, d, b) == [ptrs EXCEPT ![d] = XorW(ptrs[d], ptrs[b])]
SpSwapSecond(ptrs, d, b) == [ptrs EXCEPT ![b] = XorW(ptrs[d], ptrs[b])]
SpSwapThird(ptrs, d, b) == [ptrs EXCEPT ![d] = XorW(ptrs[d], ptrs[b])]

\* d.swap(b)
SpSwap(d, b) ==
    /\ SpStep
    /\ SpAlive(d) /\ SpAlive(b)
    /\ UNCHANGED auto_handles
    /\ SpFinish(St(auto_mem),
                SpSwapThird(SpSwapSecond(SpSwapFirst(sp_mem_ptr, d, b), d, b), d, b),
                [op |-> "swap", dst |-> d, src |-> b])

\* a single caller context: allocs, and the members of its SharedPtr objects
SpNext ==
    \/ AutoAllocStep(1)
    \/ \E d \in SpObjects : \E h \in auto_handles : SpAdopt(d, h)
    \/ \E d \in SpObjects : SpDefault(d)
    \/ \E d \in SpObjects : \E b \in SpObjects : SpCopyCtor(d, b)
    \/ \E d \in SpObjects : \E b \in SpObjects : SpMoveCtor(d, b)
    \/ \E d \in SpObjects : SpDtor(d)
    \/ \E d \in SpObjects : \E b \in SpObjects : SpCopyAssign(d, b)
    \/ \E d \in SpObjects : \E b \in SpObjects : SpMoveAssign(d, b)

\* a single caller context that builds handles and swaps them
SpSwapNext ==
    \/ AutoAllocStep(1)
    \/ \E d \in SpObjects : \E h \in auto_handles : SpAdopt(d, h)
    \/ \E d \in SpObjects : SpDefault(d)
    \/ \E d \in SpObjects : \E b \in SpObjects : SpCopyCtor(d, b)
    \/ \E d \in SpObjects : \E b \in SpObjects : SpSwap(d, b)

----------------------------------------------------------------------------
(* Spinlock  (tx_spinlock.hpp 20-48)                                       *)

\* bounds: acquire calls made by one context in one behaviour
SlMaxCalls == 2

\* the cores that share the Spinlock, and the contexts that call it: on
\* core 1 a thread (1) and an interrupt handler (2), on core 2 a thread (3)
SlCores == {1, 2}
SlContexts == {1, 2, 3}
SlCoreOf(c) == IF c = 3 THEN 2 ELSE 1

\* the interrupt handlers among the contexts, and the thread each preempts
SlHandlers == {2}
SlPreempted(h) == CHOOSE c \in SlContexts \ SlHandlers : SlCoreOf(c) = SlCoreOf(h)

\* what sl_after holds for a context that has not released yet
SlNoRelease == <<>>

\* no Spinlock is constructed
SlUnused ==
    /\ sl_m_lock = FALSE
    /\ sl_m_primask = FALSE
    /\ sl_primask = [k \in SlCores |-> FALSE]
    /\ sl_pc = [c \in SlContexts |-> "off"]
    /\ sl_before = [c \in SlContexts |-> FALSE]
    /\ sl_after = [c \in SlContexts |-> SlNoRelease]
    /\ sl_calls = [c \in SlContexts |-> 0]

\* Spinlock(void) : m_lock(false); m_primask is left uninitialized. Every
\* core runs with interrupts enabled or masked
SlInit ==
    /\ sl_m_lock = FALSE
    /\ sl_m_primask \in BOOLEAN
    /\ sl_primask \in [SlCores -> BOOLEAN]
    /\ sl_pc = [c \in SlContexts |-> "idle"]
    /\ sl_before = [c \in SlContexts |-> FALSE]
    /\ sl_after = [c \in SlContexts |-> SlNoRelease]
    /\ sl_calls = [c \in SlContexts |-> 0]

\* context c is the one its core executes: a handler is entered only while
\* PRIMASK of the core is 0, and runs to its end before the thread goes on
SlRuns(c) ==
    /\ c \in SlHandlers => (sl_pc[c] /= "idle" \/ ~sl_primask[SlCoreOf(c)])
    /\ \A h \in SlHandlers : (c = SlPreempted(h)) => sl_pc[h] = "idle"

\* acquire, line 36: m_primask = __get_PRIMASK()
SlSave(c) ==
    /\ SlFrame
    /\ sl_pc[c] = "idle" /\ SlRuns(c)
    /\ sl_calls[c] < SlMaxCalls
    /\ sl_calls' = [sl_calls EXCEPT ![c] = @ + 1]
    /\ sl_m_primask' = sl_primask[SlCoreOf(c)]
    /\ sl_before' = [sl_before EXCEPT ![c] = sl_primask[SlCoreOf(c)]]
    /\ sl_pc' = [sl_pc EXCEPT ![c] = "mask"]
    /\ UNCHANGED <<sl_m_lock, sl_primask, sl_after>>

\* an acquire that leaves PRIMASK as it found it
SlSetPrimask_Skipped(old) == old

\* acquire, line 37: the PRIMASK bit after __set_PRIMASK(0b1)
SlSetPrimask(old) == TRUE

\* acquire, line 37: __set_PRIMASK(0b1)
SlMask(c) ==
    /\ SlFrame
    /\ sl_pc[c] = "mask" /\ SlRuns(c)
    /\ sl_primask' = [sl_primask EXCEPT ![SlCoreOf(c)] = SlSetPrimask(@)]
    /\ sl_pc' = [sl_pc EXCEPT ![c] = "spin"]
    /\ UNCHANGED <<sl_m_lock, sl_m_primask, sl_before, sl_after, sl_calls>>

\* a loop that is left after one exchange, whatever it returned
SlLeavesLoop_Always(old) == TRUE

\* the while of line 38 is left when exchange returned old
SlLeavesLoop(old) == ~old

\* acquire, line 38: one m_lock.exchange(true) of the while loop
SlExchange(c) ==
    /\ SlFrame
    /\ sl_pc[c] = "spin" /\ SlRuns(c)
    /\ sl_m_lock' = TRUE
    /\ sl_pc' = [sl_pc EXCEPT ![c] = IF SlLeavesLoop(sl_m_lock) THEN "held" ELSE "spin"]
    /\ UNCHANGED <<sl_m_primask, sl_primask, sl_before, sl_after, sl_calls>>

\* release, lines 44-45: TX_ASSERT(__get_PRIMASK() & 0b1); m_lock.store(false)
SlStore(c) ==
    /\ SlFrame
    /\ sl_pc[c] = "held" /\ SlRuns(c)
    /\ IF sl_primask[SlCoreOf(c)]
       THEN /\ sl_m_lock' = FALSE
            /\ sl_pc' = [sl_pc EXCEPT ![c] = "restore"]
       ELSE /\ sl_pc' = [sl_pc EXCEPT ![c] = "halt"]
            /\ UNCHANGED sl_m_lock
    /\ UNCHANGED <<sl_m_primask, sl_primask, sl_before, sl_after, sl_calls>>

\* release, line 46: __set_PRIMASK(m_primask), and the return
SlRestore(c) ==
    /\ SlFrame
    /\ sl_pc[c] = "restore" /\ SlRuns(c)
    /\ sl_primask' = [sl_primask EXCEPT ![SlCoreOf(c)] = sl_m_primask]
    /\ sl_after' = [sl_after EXCEPT ![c] = <<sl_m_primask>>]
    /\ sl_pc' = [sl_pc EXCEPT ![c] = "idle"]
    /\ UNCHANGED <<sl_m_lock, sl_m_primask, sl_before, sl_calls>>

\* the contexts call acquire and then release, interleaved
SlNext ==
    \/ \E c \in SlContexts : SlSave(c)
    \/ \E c \in SlContexts : SlMask(c)
    \/ \E c \in SlContexts : SlExchange(c)
    \/ \E c \in SlContexts : SlStore(c)
    \/ \E c \in SlContexts : SlRestore(c)

----------------------------------------------------------------------------
(* AllocatorHalfFit::alloc and free called from a thread and from an       *)
(* interrupt handler of one core  (tx_memory_halffit.cpp 318-345); the     *)
(* m_lock of the instance is the Spinlock of the sl_ variables             *)

\* the contexts of the core the allocator is used on
ReContexts == {c \in SlContexts : SlCoreOf(c) = 1}

\* the request sizes of the two contexts
ReRequests == {W(20), W(HfMaxRequest)}

\* alloc line 327 or free line 342, then release lines 44-45, run by the
\* context that left acquire: allocator work that ended in state s, leaving
\* the caller with the pointers live. A failed TX_ASSERT spins on bkpt with
\* the lock held.
ReWorkDone(c, s, live) ==
    /\ hf_mem' = s.mem
    /\ IF Live(s) /\ sl_primask[SlCoreOf(c)]
       THEN /\ hf_live' = live
            /\ sl_m_lock' = FALSE
            /\ sl_pc' = [sl_pc EXCEPT ![c] = "restore"]
       ELSE /\ sl_pc' = [sl_pc EXCEPT ![c] = "halt"]
            /\ UNCHANGED <<hf_live, sl_m_lock>>

ReWork(c) ==
    /\ sl_pc[c] = "held" /\ SlRuns(c)
    /\ \/ \E n \in ReRequests :
              ReWorkDone(c, HfAllocate(hf_mem, n)[1],
                         hf_live \cup {[ptr |-> HfAllocate(hf_mem, n)[2], req |-> n]})
       \/ \E a \in hf_live : ReWorkDone(c, HfFreeImpl(hf_mem, a.ptr), hf_live \ {a})
    /\ UNCHANGED <<primask, linVars, seqVars, autoVars, spVars, init_op, irq_entry, contVars>>
    /\ UNCHANGED <<hf_free_block_list, hf_free_block_list_size, hf_address_start,
                   hf_address_end, hf_lock, hf_primask, hf_pc, hf_op, hf_pre, hf_freed,
                   hf_test_pc, hf_test_ptr, hf_test_i, hf_clear_pc, hf_ended>>
    /\ UNCHANGED <<sl_m_primask, sl_primask, sl_before, sl_after, sl_calls>>

\* what ReWork does to the position of the context: the work goes on to
\* release or ends in the halt of a failed TX_ASSERT
ReLeavesWork(c) ==
    /\ sl_pc[c] = "held" /\ SlRuns(c)
    /\ sl_pc' \in {[sl_pc EXCEPT ![c] = "restore"], [sl_pc EXCEPT ![c] = "halt"]}

\* the context that runs moves on inside its call
ReStep ==
    \E c \in ReContexts : SlMask(c) \/ SlExchange(c) \/ ReLeavesWork(c) \/ SlRestore(c)

\* a context calls alloc or free (TX_ASSERT(is_initialized()) holds, then
\* line 36 of acquire), or the core goes on with the call it is in
ReNext ==
    \/ \E c \in ReContexts : SlSave(c)
    \/ \E c \in ReContexts : SlMask(c)
    \/ \E c \in ReContexts : SlExchange(c)
    \/ \E c \in ReContexts : ReWork(c)
    \/ \E c \in ReContexts : SlRestore(c)

----------------------------------------------------------------------------
(* initialize of LinAllocator, AllocatorSeqFit and AutoLinAlloc            *)
(* (tx_memory.cpp 166-184 and 328-346, tx_automemory.cpp 186-205)          *)

\* bounds: initialize calls made on these allocators in one behaviour
InitMaxCalls == 2

\* no initialize call was made
InitNone == init_op = [who |-> "none", count |-> 0]

\* no alloc or free call has masked the interrupts
IrqNone == irq_entry = primask

\* the call counted
InitCalled(who) ==
    /\ init_op.count < InitMaxCalls
    /\ init_op' = [who |-> who, count |-> init_op.count + 1]

\* the regions handed to initialize: at MemBase or 2 bytes past it; of no
\* byte, of a size off the word size, of less than a block, and of two sizes
\* that hold a block
InitPointers == {MemBase, AddW(MemBase, W(2))}
InitSizes == {0, 6, 8, 16, 24}

\* is_initialized of the three allocators
LinIsInitialized == lin_address_start /= lin_address_end
SeqIsInitialized == seq_address_start /= seq_address_end
AutoIsInitialized == auto_address_start /= auto_address_end

\* the four assertions on the arguments, the same in the three initialize:
\* info_size is BLOCK_INFO_SIZE of the allocator
InitArgsHold(address_start, size, info_size) ==
    /\ address_start[2] % 4 = 0
    /\ size % 4 = 0
    /\ GtW(AddW(address_start, W(size)), address_start)
    /\ size >= info_size + 2^2

\* an initialize that goes ahead on an initialized instance
LinInitializeAccepts_Again(address_start, size) ==
    InitArgsHold(address_start, size, LIN_BLOCK_INFO_SIZE)

\* LinAllocator::initialize, lines 171-175
LinInitializeAccepts(address_start, size) ==
    ~LinIsInitialized /\ InitArgsHold(address_start, size, LIN_BLOCK_INFO_SIZE)

\* LinAllocator::initialize(mem_ptr, size)
LinInitialize(mem_ptr, size) ==
    /\ lin_pc = "idle"
    /\ InitCalled("lin")
    /\ UNCHANGED <<primask, irq_entry, seqVars, hfVars, autoVars, spVars, slVars, contVars>>
    /\ UNCHANGED <<lin_block_size, lin_search_block, lin_result, lin_content, lin_op,
                   lin_fit, lin_frees>>
    /\ IF LinInitializeAccepts(mem_ptr, size)
       THEN /\ \E fill \in FillBytes :
                   lin_mem' = WrWord(WrWord(FreshMem(size, fill),
                                            AddW(mem_ptr, W(LIN_OFF_STATE)), StateFree),
                                     AddW(mem_ptr, W(LIN_OFF_SIZE)), W(size))
            /\ lin_next_search_block' = mem_ptr
            /\ lin_address_start' = mem_ptr
            /\ lin_address_end' = AddW(mem_ptr, W(size))
            /\ UNCHANGED lin_pc
       ELSE /\ lin_pc' = "halt"
            /\ UNCHANGED <<lin_mem, lin_next_search_block, lin_address_start,
                           lin_address_end>>

\* AllocatorSeqFit::initialize, lines 333-337
SeqInitializeAccepts(address_start, size) ==
    ~SeqIsInitialized /\ InitArgsHold(address_start, size, SEQ_BLOCK_INFO_SIZE)

\* AllocatorSeqFit::initialize(mem_ptr, size)
SeqInitialize(mem_ptr, size) ==
    /\ seq_pc = "idle"
    /\ InitCalled("seq")
    /\ UNCHANGED <<primask, irq_entry, linVars, hfVars, autoVars, spVars, slVars, contVars>>
    /\ UNCHANGED <<seq_block_size, seq_search_distance, seq_search_block, seq_status,
                   seq_result, seq_live>>
    /\ IF SeqInitializeAccepts(mem_ptr, size)
       THEN /\ \E fill \in FillBytes :
                   seq_mem' = WrWord(WrWord(FreshMem(size, fill),
                                            AddW(mem_ptr, W(SEQ_OFF_REF_COUNT)), NullW),
                                     AddW(mem_ptr, W(SEQ_OFF_SIZE)), W(size))
            /\ seq_next_search_block' = mem_ptr
            /\ seq_address_start' = mem_ptr
            /\ seq_address_end' = AddW(mem_ptr, W(size))
            /\ UNCHANGED seq_pc
       ELSE /\ seq_pc' = "halt"
            /\ UNCHANGED <<seq_mem, seq_next_search_block, seq_address_start,
                           seq_address_end>>

\* AutoLinAlloc::initialize, lines 191-195
AutoInitializeAccepts(address_start, size) ==
    ~AutoIsInitialized /\ InitArgsHold(address_start, size, AUTO_BLOCK_INFO_SIZE)

\* AutoLinAlloc::initialize(mem_ptr, size), called by context 1
AutoInitialize(mem_ptr, size) ==
    /\ \A c \in AutoContexts : auto_pc[c] = "idle"
    /\ InitCalled("auto")
    /\ UNCHANGED <<primask, irq_entry, linVars, seqVars, hfVars, spVars, slVars, contVars>>
    /\ UNCHANGED <<auto_outside, auto_block_size, auto_search_block, auto_result,
                   auto_handles, auto_calls, auto_pre>>
    /\ IF AutoInitializeAccepts(mem_ptr, size)
       THEN /\ \E fill \in FillBytes :
                   auto_mem' = WrWord(WrWord(FreshMem(size, fill),
                                             AddW(mem_ptr, W(AUTO_OFF_REF_COUNT)), NullW),
                                      AddW(mem_ptr, W(AUTO_OFF_SIZE)), W(size))
            /\ auto_next_search_block' = mem_ptr
            /\ auto_address_start' = mem_ptr
            /\ auto_address_end' = AddW(mem_ptr, W(size))
            /\ auto_allocation_lock' = FALSE
            /\ UNCHANGED auto_pc
       ELSE /\ auto_pc' = [auto_pc EXCEPT ![1] = "halt"]
            /\ UNCHANGED <<auto_mem, auto_next_search_block, auto_address_start,
                           auto_address_end, auto_allocation_lock>>

----------------------------------------------------------------------------
(* Queue<Type> (tx_queue.hpp): a ring of m_capacity elements in m_array.    *)
(* Indices are the C++ indices 0..m_capacity-1; q_array[i + 1] is           *)
(* m_array[i].                                                             *)

\* the largest capacity a queue is constructed with
QMaxCapacity == 3

\* the largest element value pushed
QMaxValue == 2

\* the values of Type that are pushed
QValues == 1..QMaxValue

\* raw storage: no Type object lives in the element
QRaw == 0

\* the queue was never constructed with a capacity
QUnused ==
    /\ q_array = <<>>
    /\ q_front = 0
    /\ q_back = 0
    /\ q_capacity = 0
    /\ q_pc = "unused"
    /\ q_stored = <<>>
    /\ q_op = [op |-> "none", value |-> QRaw, expected |-> QRaw]

\* Queue(alloc, free, capacity): initialize
QInitialize(capacity) ==
    /\ q_front = 0
    /\ q_back = 0
    /\ q_capacity = capacity
    /\ q_array = [i \in 1..capacity |-> QRaw]
    /\ q_pc = "idle"
    /\ q_stored = <<>>
    /\ q_op = [op |-> "none", value |-> QRaw, expected |-> QRaw]

QInit == \E capacity \in 1..QMaxCapacity : QInitialize(capacity)

\* last_used_index
QLastUsedIndex(front, back) == IF front <= back THEN back - 1 ELSE back

\* is_empty
QIsEmpty == q_front = q_back

QIsFull_FrontZero == q_back = q_capacity

\* is_full
QIsFull == IF q_front > 0 THEN q_front = q_back + 1 ELSE q_back = q_capacity

\* get_size
QGetSize ==
    IF q_front <= q_back THEN q_back - q_front
    ELSE q_back + 1 + q_capacity - q_front

\* a TX_ASSERT of a queue operation failed
QHalt(op) ==
    /\ q_pc' = "halt"
    /\ q_op' = [op |-> op, value |-> QRaw, expected |-> QRaw]
    /\ UNCHANGED <<q_array, q_front, q_back, q_capacity, q_stored>>

\* push_back, m_back already advanced to back
QConstructAt(back, value) ==
    /\ q_back' = back
    /\ q_array' = [q_array EXCEPT ![QLastUsedIndex(q_front, back) + 1] = value]
    /\ q_stored' = Append(q_stored, value)
    /\ q_op' = [op |-> "push_back", value |-> value, expected |-> value]
    /\ UNCHANGED <<q_front, q_capacity, q_pc>>

\* push_back
QPushBack(value) ==
    /\ q_pc = "idle"
    /\ IF QIsFull
       THEN QHalt("push_back")
       ELSE QConstructAt(IF q_back + 1 > q_capacity THEN 0 ELSE q_back + 1, value)
    /\ UNCHANGED <<allocVars, htVars, fhVars>>

\* pop_front
QPopFront ==
    /\ q_pc = "idle"
    /\ IF QIsEmpty
       THEN QHalt("pop_front")
       ELSE /\ q_array' = [q_array EXCEPT ![q_front + 1] = QRaw]
            /\ IF q_front + 1 >= q_capacity
               THEN /\ q_front' = 0
                    /\ q_back' = IF q_back = q_capacity THEN 0 ELSE q_back + 1
               ELSE /\ q_front' = q_front + 1
                    /\ UNCHANGED q_back
            /\ q_stored' = Tail(q_stored)
            /\ q_op' = [op |-> "pop_front", value |-> q_array[q_front + 1],
                        expected |-> Head(q_stored)]
            /\ UNCHANGED <<q_capacity, q_pc>>
    /\ UNCHANGED <<allocVars, htVars, fhVars>>

\* pop_back
QPopBack ==
    /\ q_pc = "idle"
    /\ IF QIsEmpty
       THEN QHalt("pop_back")
       ELSE /\ q_array' = [q_array EXCEPT ![QLastUsedIndex(q_front, q_back) + 1] = QRaw]
            /\ q_back' = IF q_back = 0 THEN q_capacity ELSE q_back - 1
            /\ q_stored' = SubSeq(q_stored, 1, Len(q_stored) - 1)
            /\ q_op' = [op |-> "pop_back",
                        value |-> q_array[QLastUsedIndex(q_front, q_back) + 1],
                        expected |-> q_stored[Len(q_stored)]]
            /\ UNCHANGED <<q_front, q_capacity, q_pc>>
    /\ UNCHANGED <<allocVars, htVars, fhVars>>

QNext ==
    \/ \E value \in QValues : QPushBack(value)
    \/ QPopFront
    \/ QPopBack

----------------------------------------------------------------------------
(* HashTable<Key, Value, CAPACITY, KEY_INVALID, hash_func> (tx_hash.hpp):   *)
(* open addressing with linear probing.  Indices are the C++ indices        *)
(* 0..CAPACITY-1; ht_key_list[i + 1] is key_list[i].                        *)

\* the template argument CAPACITY
HtCapacity == 4

\* the largest key used
HtMaxKey == 7

\* the largest value stored
HtMaxValue == 2

\* the template argument KEY_INVALID
HtKeyInvalid == 0

\* the keys inserted, found and removed
HtKeys == 1..HtMaxKey

\* the values of Value
HtValues == 1..HtMaxValue

\* the template argument hash_func
HtHashFunc(key) == key % HtCapacity

\* find returned nullptr
HtNullptr == -1

\* no value is stored under the key
HtAbsent == 0

\* next_index
HtNextIndex(index) == IF index + 1 = HtCapacity THEN 0 ELSE index + 1

\* compute_distance
HtComputeDistance(keys, index) ==
    IF index >= HtHashFunc(keys[index + 1])
    THEN index - HtHashFunc(keys[index + 1])
    ELSE HtHashFunc(keys[index + 1]) + HtCapacity - index

\* the probe loop of find, insert and remove: the first index from `index`
\* whose key is `key` or KEY_INVALID
RECURSIVE HtProbe(_, _, _)
HtProbe(keys, index, key) ==
    IF keys[index + 1] = key \/ keys[index + 1] = HtKeyInvalid THEN index
    ELSE HtProbe(keys, HtNextIndex(index), key)

\* find: the index of the value pointed to, or nullptr
HtFind(key) ==
    IF ht_key_list[HtProbe(ht_key_list, HtHashFunc(key), key) + 1] = key
    THEN HtProbe(ht_key_list, HtHashFunc(key), key)
    ELSE HtNullptr

\* get_size
HtGetSize == ht_size

\* no HashTable was constructed
HtUnused ==
    /\ ht_size = 0
    /\ ht_key_list = <<>>
    /\ ht_value_list = <<>>
    /\ ht_pc = "unused"
    /\ ht_map = <<>>

\* HashTable(void); the elements of value_list are not initialized
HtInit ==
    /\ ht_size = 0
    /\ ht_key_list = [i \in 1..HtCapacity |-> HtKeyInvalid]
    /\ ht_value_list \in [1..HtCapacity -> HtValues]
    /\ ht_pc = "idle"
    /\ ht_map = [k \in HtKeys |-> HtAbsent]

\* insert, the probe loop having stopped at index
HtInsertAt(index, key, value) ==
    /\ ht_key_list' = [ht_key_list EXCEPT ![index + 1] = key]
    /\ ht_size' = IF ht_key_list[index + 1] /= key THEN ht_size + 1 ELSE ht_size
    /\ ht_value_list' = [ht_value_list EXCEPT ![index + 1] = value]
    /\ ht_pc' = IF ht_size' < HtCapacity THEN "idle" ELSE "halt"
    /\ ht_map' = [ht_map EXCEPT ![key] = value]

\* insert
HtInsert(key, value) ==
    /\ ht_pc = "idle"
    /\ HtInsertAt(HtProbe(ht_key_list, HtHashFunc(key), key), key, value)
    /\ UNCHANGED <<allocVars, qVars, fhVars>>

\* remove, the loop "Shift table up": <<key_list, value_list, index_remove>>
\* when it ends
RECURSIVE HtShift(_, _, _, _, _)
HtShift(keys, values, index_remove, index_replace, distance) ==
    IF keys[index_replace + 1] = HtKeyInvalid THEN <<keys, values, index_remove>>
    ELSE IF HtComputeDistance(keys, index_replace) >= distance
         THEN HtShift([keys EXCEPT ![index_remove + 1] = keys[index_replace + 1]],
                      [values EXCEPT ![index_remove + 1] = values[index_replace + 1]],
                      index_replace, HtNextIndex(index_replace), 1)
         ELSE HtShift(keys, values, index_remove, HtNextIndex(index_replace),
                      distance + 1)

\* remove, the end: the table shifted, the last vacated key made invalid
HtRemoveDone(shifted, key) ==
    /\ ht_key_list' = [shifted[1] EXCEPT ![shifted[3] + 1] = HtKeyInvalid]
    /\ ht_value_list' = shifted[2]
    /\ ht_size' = ht_size - 1
    /\ ht_map' = [ht_map EXCEPT ![key] = HtAbsent]
    /\ UNCHANGED ht_pc

\* remove, the probe loop having stopped at index_remove
HtRemoveAt(index_remove, key) ==
    IF ht_key_list[index_remove + 1] = HtKeyInvalid
    THEN UNCHANGED htVars
    ELSE HtRemoveDone(HtShift(ht_key_list, ht_value_list, index_remove,
                              HtNextIndex(index_remove), 1), key)

\* remove
HtRemove(key) ==
    /\ ht_pc = "idle"
    /\ HtRemoveAt(HtProbe(ht_key_list, HtHashFunc(key), key), key)
    /\ UNCHANGED <<allocVars, qVars, fhVars>>

HtNext ==
    \/ \E key \in HtKeys, value \in HtValues : HtInsert(key, value)
    \/ \E key \in HtKeys : HtRemove(key)

----------------------------------------------------------------------------
(* ForgetfulHash<Key, Value, KEY_CAPACITY, VALUE_CAPACITY, hash_func>       *)
(* (tx_hash.hpp): insert and find.  Indices are the C++ indices;            *)
(* fh_ref_list[i + 1] is ref_list[i], fh_value_array[r + 1] is              *)
(* value_array[r].                                                         *)

\* the template argument KEY_CAPACITY
FhKeyCapacity == 4

\* the template argument VALUE_CAPACITY
FhValueCapacity == 2

\* the largest key used
FhMaxKey == 5

\* the largest value stored
FhMaxValue == 2

\* the keys inserted and found
FhKeys == 1..FhMaxKey

\* the values of Value
FhValues == 1..FhMaxValue

\* the template argument hash_func
FhHashFunc(key) == key % FhKeyCapacity

\* REF_INVALID, (size_t)(-1)
FhRefInvalid == -1

\* find returned nullptr
FhNullptr == -2

\* an element of key_list or value_array that was never written; it is not
\* read while its reference is REF_INVALID
FhNotWritten == 0

\* next_index
FhNextIndex(index) == IF index + 1 = FhKeyCapacity THEN 0 ELSE index + 1

\* prev_index
FhPrevIndex(index) == (IF index = 0 THEN FhKeyCapacity ELSE index) - 1

\* index_is_free
FhIndexIsFree(refs, index) == refs[index + 1] = FhRefInvalid

\* the probe loop of find and insert: the first index from `index` that is
\* free or holds `key`
RECURSIVE FhProbe(_, _, _, _)
FhProbe(refs, keys, index, key) ==
    IF FhIndexIsFree(refs, index) \/ keys[index + 1] = key THEN index
    ELSE FhProbe(refs, keys, FhNextIndex(index), key)

\* find: the index in value_array of the value pointed to, or nullptr
FhFind(key) ==
    IF FhIndexIsFree(fh_ref_list, FhProbe(fh_ref_list, fh_key_list, FhHashFunc(key), key))
    THEN FhNullptr
    ELSE fh_ref_list[FhProbe(fh_ref_list, fh_key_list, FhHashFunc(key), key) + 1]

\* get_size
FhGetSize == fh_size

\* no ForgetfulHash was constructed
FhUnused ==
    /\ fh_size = 0
    /\ fh_ref_list = <<>>
    /\ fh_key_list = <<>>
    /\ fh_value_array = <<>>
    /\ fh_pc = "unused"
    /\ fh_op = [key |-> FhNotWritten, value |-> FhNotWritten, evicted |-> FALSE]

\* ForgetfulHash(void)
FhInit ==
    /\ fh_size = 0
    /\ fh_ref_list = [i \in 1..FhKeyCapacity |-> FhRefInvalid]
    /\ fh_key_list = [i \in 1..FhKeyCapacity |-> FhNotWritten]
    /\ fh_value_array = [i \in 1..FhValueCapacity |-> FhNotWritten]
    /\ fh_pc = IF FhKeyCapacity > FhValueCapacity /\ FhValueCapacity > 0
               THEN "idle" ELSE "halt"
    /\ fh_op = [key |-> FhNotWritten, value |-> FhNotWritten, evicted |-> FALSE]

\* insert, the first loop of the eviction: back to a free index
RECURSIVE FhBackToFree(_, _)
FhBackToFree(refs, index_remove) ==
    IF FhIndexIsFree(refs, index_remove) THEN index_remove
    ELSE FhBackToFree(refs, FhPrevIndex(index_remove))

\* insert, the second loop of the eviction: back to an occupied index
RECURSIVE FhBackToUsed(_, _)
FhBackToUsed(refs, index_remove) ==
    IF ~FhIndexIsFree(refs, index_remove) THEN index_remove
    ELSE FhBackToUsed(refs, FhPrevIndex(index_remove))

\* insert, the index that gives up its value slot
FhIndexRemove(refs, key_index) == FhBackToUsed(refs, FhBackToFree(refs, key_index))

\* insert, the index the new key is stored at when index_remove is evicted
FhEvictTo(index, index_remove) ==
    IF FhNextIndex(index_remove) = index THEN index_remove ELSE index

\* insert, the end "Store the new key-value pair"
FhStore(refs, index, key, value) ==
    /\ fh_ref_list' = refs
    /\ fh_key_list' = [fh_key_list EXCEPT ![index + 1] = key]
    /\ fh_value_array' = [fh_value_array EXCEPT ![refs[index + 1] + 1] = value]

\* insert, value_array full: an existing pair is removed to make space
FhEvict(index, index_remove, key, value) ==
    /\ FhStore(IF FhEvictTo(index, index_remove) = index
               THEN [fh_ref_list EXCEPT ![index + 1] = fh_ref_list[index_remove + 1],
                                        ![index_remove + 1] = FhRefInvalid]
               ELSE fh_ref_list,
               FhEvictTo(index, index_remove), key, value)
    /\ UNCHANGED fh_size

\* insert, the probe loop having stopped at index
FhInsertAt(index, key, value) ==
    IF ~FhIndexIsFree(fh_ref_list, index)
    THEN /\ fh_value_array' = [fh_value_array EXCEPT ![fh_ref_list[index + 1] + 1] = value]
         /\ UNCHANGED <<fh_size, fh_ref_list, fh_key_list>>
    ELSE IF fh_size < FhValueCapacity
         THEN /\ FhStore([fh_ref_list EXCEPT ![index + 1] = fh_size], index, key, value)
              /\ fh_size' = fh_size + 1
         ELSE FhEvict(index, FhIndexRemove(fh_ref_list, FhHashFunc(key)), key, value)

\* insert
FhInsert(key, value) ==
    /\ fh_pc = "idle"
    /\ FhInsertAt(FhProbe(fh_ref_list, fh_key_list, FhHashFunc(key), key), key, value)
    /\ fh_op' = [key |-> key, value |-> value,
                 evicted |-> FhFind(key) = FhNullptr /\ fh_size = FhValueCapacity]
    /\ UNCHANGED fh_pc
    /\ UNCHANGED <<allocVars, qVars, htVars>>

FhNext == \E key \in FhKeys, value \in FhValues : FhInsert(key, value)

----------------------------------------------------------------------------
(* Specifications of the containers: one container in use.                 *)

\* no container was constructed
ContUnused == QUnused /\ HtUnused /\ FhUnused

\* no allocator is in use
AllocUnused ==
    /\ primask = FALSE
    /\ LinUnused /\ SeqUnused /\ HfUnused /\ AutoUnused /\ SpInit /\ SlUnused
    /\ InitNone /\ IrqNone

SpecQueueInit == AllocUnused /\ QInit /\ HtUnused /\ FhUnused
SpecQueue == SpecQueueInit /\ [][QNext]_vars

SpecHashInit == AllocUnused /\ QUnused /\ HtInit /\ FhUnused
SpecHash == SpecHashInit /\ [][HtNext]_vars

SpecForgetfulInit == AllocUnused /\ QUnused /\ HtUnused /\ FhInit
SpecForgetful == SpecForgetfulInit /\ [][FhNext]_vars

----------------------------------------------------------------------------
(* Specifications: one allocator instance in use, the others never         *)
(* initialized.                                                            *)

SpecLinInit ==
    primask \in BOOLEAN /\ LinInit /\ SeqUnused /\ HfUnused /\ AutoUnused /\ SpInit /\ SlUnused /\ InitNone /\ IrqNone /\ ContUnused
SpecLin == SpecLinInit /\ [][LinNext]_vars

SpecSeqInit ==
    primask \in BOOLEAN /\ SeqInit /\ LinUnused /\ HfUnused /\ AutoUnused /\ SpInit /\ SlUnused /\ InitNone /\ IrqNone /\ ContUnused
SpecSeq == SpecSeqInit /\ [][SeqNext]_vars

\* unit_test1, lines 255-259: char mem_ptr[0x200], alloc_count = 10, and the
\* request of line 264
TestRegionSize == 512
alloc_count == 10
TestRequest == 16

\* where the compiler may put the char array mem_ptr, relative to a boundary
\* of BLOCK_ALIGNMENT bytes
TestSkews == 0..(HF_BLOCK_ALIGNMENT - 1)

\* unit_test1, lines 255-257
HfTestInit ==
    /\ \E skew \in TestSkews : HfInitializeAt(AddW(MemBase, W(skew)), TestRegionSize)
    /\ hf_test_pc = "alloc"

\* the for statement moves on to the next i, or to the next loop
HfTestAdvance(next_pc) ==
    /\ hf_test_i' = IF hf_test_i + 1 < alloc_count THEN hf_test_i + 1 ELSE 0
    /\ hf_test_pc' = IF hf_test_i + 1 < alloc_count THEN hf_test_pc ELSE next_pc
    /\ UNCHANGED <<hf_clear_pc, hf_ended>>

\* unit_test1, lines 262-265: ptr[i] = allocator.alloc(0x10)
HfTestAlloc ==
    /\ hf_test_pc = "alloc"
    /\ HfAllocCall(W(TestRequest))
    /\ hf_test_ptr' = Append(hf_test_ptr, hf_op'.ptr)
    /\ HfTestAdvance("free_odd")

\* the body of the two free loops: free(ptr[i]) when (i & 0b1) == bit
HfTestFreeBody(bit) ==
    IF hf_test_i % 2 = bit
    THEN \E a \in hf_live : a.ptr = hf_test_ptr[hf_test_i + 1] /\ HfFreeCall(a)
    ELSE /\ hf_pc = "idle"
         /\ HfFrame
         /\ UNCHANGED <<primask, hf_mem, hf_free_block_list, hf_free_block_list_size,
                        hf_address_start, hf_address_end, hf_lock, hf_primask, hf_pc,
                        hf_live, hf_op, hf_pre, hf_freed>>

\* unit_test1, lines 267-271
HfTestFreeOdd ==
    /\ hf_test_pc = "free_odd"
    /\ HfTestFreeBody(1)
    /\ HfTestAdvance("free_even")
    /\ UNCHANGED hf_test_ptr

\* unit_test1, lines 273-277
HfTestFreeEven ==
    /\ hf_test_pc = "free_even"
    /\ HfTestFreeBody(0)
    /\ HfTestAdvance("done")
    /\ UNCHANGED hf_test_ptr

\* a caller that makes alloc, free and clear calls as it likes, or unit_test1
HfReleaseNext ==
    \/ \E n \in HfRequests : HfAlloc(n)
    \/ \E a \in hf_live : HfFree(a)
    \/ HfClear
    \/ HfTestAlloc
    \/ HfTestFreeOdd
    \/ HfTestFreeEven

\* free(content_ptr) on a pointer that was freed already, no alloc since;
\* the caller makes no call after it
HfDoubleFree(f) ==
    /\ hf_test_pc = "off"
    /\ hf_clear_pc = "idle"
    /\ HfFrame
    /\ hf_pc = "idle"
    /\ ~hf_lock
    /\ HfLeave(HfFreeImpl(hf_mem, f.ptr), hf_live)
    /\ hf_op' = [op |-> "double_free", ptr |-> f.ptr, req |-> NullW, merged |-> f.merged]
    /\ hf_test_pc' = "stop"
    /\ UNCHANGED <<hf_pre, hf_freed, hf_test_ptr, hf_test_i, hf_clear_pc, hf_ended>>

HfMisuseNext ==
    \/ \E n \in HfRequests : HfAlloc(n)
    \/ \E a \in hf_live : HfFree(a)
    \/ HfClear
    \/ \E f \in hf_freed : HfDoubleFree(f)

\* clear called with interrupts enabled and no lock taken: the for loop of
\* initialize_management_data (lines 102-105) has run
HfClearBegin ==
    /\ HfFrame
    /\ hf_test_pc = "off"
    /\ hf_clear_pc = "idle"
    /\ hf_pc = "idle"
    /\ ~hf_lock
    /\ HfClearDone(HfClearList(St(hf_mem), 0))
    /\ hf_clear_pc' = "lists"
    /\ hf_op' = [HfNoCall EXCEPT !.op = "clearing"]
    /\ hf_pre' = HfNoPre
    /\ hf_freed' = {}
    /\ UNCHANGED <<primask, hf_free_block_list, hf_free_block_list_size,
                   hf_address_start, hf_address_end, hf_lock, hf_primask, hf_live,
                   hf_test_pc, hf_test_ptr, hf_test_i, hf_ended>>

\* the rest of initialize_management_data (lines 107-111), once the context
\* that called clear runs again; the callers make no call after it
HfClearEnd ==
    /\ HfFrame
    /\ hf_clear_pc = "lists"
    /\ hf_pc = "idle"
    /\ HfClearDone(HfRegisterFreeBlock(
                       HfWriteFree(St(hf_mem), hf_address_start,
                                   SubW(hf_address_end, hf_address_start)),
                       hf_address_start))
    /\ hf_clear_pc' = "done"
    /\ hf_live' = {}
    /\ hf_op' = [HfNoCall EXCEPT !.op = "clear"]
    /\ hf_pre' = HfNoPre
    /\ hf_freed' = {}
    /\ UNCHANGED <<primask, hf_free_block_list, hf_free_block_list_size,
                   hf_address_start, hf_address_end, hf_lock, hf_primask,
                   hf_test_pc, hf_test_ptr, hf_test_i, hf_ended>>

\* an interrupt handler runs while the clear of the interrupted context is
\* between its two parts: the Spinlock is free, so its calls go ahead
HfInsideClear ==
    /\ hf_test_pc = "off"
    /\ hf_clear_pc = "lists"
    /\ UNCHANGED <<hf_test_pc, hf_test_ptr, hf_test_i, hf_clear_pc, hf_ended>>

HfIrqAlloc(n) == HfInsideClear /\ HfAllocCall(n)

HfIrqFree(a) == HfInsideClear /\ HfFreeCall(a)

HfConcNext ==
    \/ \E n \in HfRequests : HfAlloc(n)
    \/ \E a \in hf_live : HfFree(a)
    \/ HfClearBegin
    \/ HfClearEnd
    \/ \E n \in HfRequests : HfIrqAlloc(n)
    \/ \E a \in hf_live : HfIrqFree(a)

\* bounds: uninitialize calls that return in one behaviour, and the size of
\* the region of a caller that initializes and uninitializes, in alignment
\* units
HfMaxLives == 1
HfLifeUnits == 13

\* AllocatorHalfFit::is_initialized
HfIsInitialized == hf_address_start /= hf_address_end

\* AllocatorHalfFit::get_total_size
HfGetTotalSize == SubW(hf_address_end, hf_address_start)

\* the regions handed to initialize: on a boundary of BLOCK_ALIGNMENT bytes
\* or 4 bytes past one; of no byte, of less than MIN_ALLOC_SIZE, of
\* MIN_ALLOC_SIZE, of a size off the alignment, of the least size that
\* holds a block, and of HfLifeUnits units
HfInitPointers == {MemBase, AddW(MemBase, W(4))}
HfInitSizes == {0, 24, 32, 36, 40, HF_BLOCK_ALIGNMENT * HfLifeUnits}

\* the region of an initialized instance is the one it was given
HfOwnRegion(mem_ptr, size) ==
    mem_ptr = hf_free_block_list /\ AddW(mem_ptr, W(size)) = hf_address_end

\* x & (BLOCK_ALIGNMENT - 1) == 0
HfAligned(x) == x[2] % HF_BLOCK_ALIGNMENT = 0

\* initialize, lines 294-296: the three assertions made before any store;
\* the second tests the member address_start
HfInitializeAccepts(mem_ptr, size) ==
    /\ ~HfIsInitialized
    /\ HfAligned(hf_address_start)
    /\ HfAligned(W(size))

\* initialize, line 300: 1 + get_order_from_size(size - 1)
HfInitListSize(size) == AddW(W(1), HfOrderFromSize(SubW(W(size), W(1))))

\* initialize, lines 302-303: the address after the list, aligned
HfInitStart(mem_ptr, size) ==
    HfNextAligned(AddW(mem_ptr, AddW(AddW(HfInitListSize(size), HfInitListSize(size)),
                                     AddW(HfInitListSize(size), HfInitListSize(size)))))

\* initialize, line 306
HfInitBoundsHold(mem_ptr, size) ==
    /\ GtW(AddW(mem_ptr, W(size)), HfInitStart(mem_ptr, size))
    /\ GtW(HfInitStart(mem_ptr, size), mem_ptr)

\* AllocatorHalfFit::initialize(mem_ptr, size) up to the assertion of line
\* 306; the region holds whatever the caller left in it
HfInitializeCall(mem_ptr, size) ==
    /\ HfFrame
    /\ HfOutsideTest
    /\ hf_pc = "idle"
    /\ hf_op' = [op |-> "initialize", ptr |-> mem_ptr, req |-> W(size), merged |-> "none"]
    /\ hf_pre' = HfNoPre
    /\ hf_freed' = {}
    /\ UNCHANGED <<primask, hf_lock, hf_primask>>
    /\ IF ~HfInitializeAccepts(mem_ptr, size)
       THEN /\ hf_pc' = "halt"
            /\ UNCHANGED <<hf_mem, hf_free_block_list, hf_free_block_list_size,
                           hf_address_start, hf_address_end, hf_live>>
       ELSE /\ hf_free_block_list_size' = Val(HfInitListSize(size))
            /\ hf_free_block_list' = mem_ptr
            /\ hf_address_start' = HfInitStart(mem_ptr, size)
            /\ hf_address_end' = AddW(mem_ptr, W(size))
            /\ \E fill \in FillBytes : hf_mem' = FreshMem(OffW(mem_ptr)[2] + size, fill)
            /\ hf_live' = {}
            /\ hf_pc' = IF HfInitBoundsHold(mem_ptr, size) THEN "init" ELSE "halt"

\* the rest of initialize, line 308: initialize_management_data
HfInitializeData ==
    /\ HfFrame
    /\ hf_pc = "init"
    /\ HfClearDone(HfInitializeManagementData(hf_mem))
    /\ UNCHANGED <<primask, hf_free_block_list, hf_free_block_list_size,
                   hf_address_start, hf_address_end, hf_lock, hf_primask, hf_live,
                   hf_op, hf_pre, hf_freed, hf_test_pc, hf_test_ptr, hf_test_i,
                   hf_clear_pc, hf_ended>>

\* a loop that finds every byte of the pool unused
HfOutstanding_Never(m) == FALSE

\* uninitialize, line 313: get_unused_size() differs from get_total_size()
HfOutstanding(m) == HfUnusedSize(m) /= HfGetTotalSize

\* AllocatorHalfFit::uninitialize: get_unused_size (which asserts
\* is_initialized, takes and releases the Spinlock), the assertion, the reset
HfUninitialize ==
    /\ HfFrame
    /\ hf_test_pc = "off" /\ hf_clear_pc = "idle"
    /\ hf_pc = "idle"
    /\ ~hf_lock
    /\ hf_ended < HfMaxLives \/ ~HfIsInitialized \/ HfOutstanding(hf_mem)
    /\ hf_op' = [HfNoCall EXCEPT !.op = "uninitialize"]
    /\ hf_pre' = HfNoPre
    /\ hf_freed' = {}
    /\ UNCHANGED <<primask, hf_mem, hf_free_block_list, hf_free_block_list_size,
                   hf_lock, hf_live, hf_test_pc, hf_test_ptr, hf_test_i, hf_clear_pc>>
    /\ IF ~HfIsInitialized
       THEN /\ hf_pc' = "halt"
            /\ UNCHANGED <<hf_address_start, hf_address_end, hf_primask, hf_ended>>
       ELSE /\ hf_primask' = primask
            /\ IF HfOutstanding(hf_mem)
               THEN /\ hf_pc' = "halt"
                    /\ UNCHANGED <<hf_address_start, hf_address_end, hf_ended>>
               ELSE /\ hf_pc' = "idle"
                    /\ hf_address_start' = NullW
                    /\ hf_address_end' = NullW
                    /\ hf_ended' = hf_ended + 1

\* ~AllocatorHalfFit, tx_memory_halffit.hpp line 55: the destructor is a
\* call of uninitialize; the instance is gone when it returns
HfDestructor ==
    /\ HfFrame
    /\ hf_test_pc = "off" /\ hf_clear_pc = "idle"
    /\ hf_pc = "idle"
    /\ ~hf_lock
    /\ hf_op' = [HfNoCall EXCEPT !.op = "destroy"]
    /\ hf_pre' = HfNoPre
    /\ hf_freed' = {}
    /\ UNCHANGED <<primask, hf_mem, hf_free_block_list, hf_free_block_list_size,
                   hf_lock, hf_live, hf_test_pc, hf_test_ptr, hf_test_i, hf_clear_pc,
                   hf_ended>>
    /\ IF ~HfIsInitialized
       THEN /\ hf_pc' = "halt"
            /\ UNCHANGED <<hf_address_start, hf_address_end, hf_primask>>
       ELSE /\ hf_primask' = primask
            /\ IF HfOutstanding(hf_mem)
               THEN /\ hf_pc' = "halt"
                    /\ UNCHANGED <<hf_address_start, hf_address_end>>
               ELSE /\ hf_pc' = "gone"
                    /\ hf_address_start' = NullW
                    /\ hf_address_end' = NullW

\* alloc, free, clear or get_unused_size on an instance that is not
\* initialized: TX_ASSERT(is_initialized()) fails
HfNotInitializedCall ==
    /\ HfFrame
    /\ ~HfIsInitialized
    /\ hf_pc = "idle"
    /\ hf_pc' = "halt"
    /\ UNCHANGED <<primask, hf_mem, hf_free_block_list, hf_free_block_list_size,
                   hf_address_start, hf_address_end, hf_lock, hf_primask, hf_live,
                   hf_op, hf_pre, hf_freed, hf_test_pc, hf_test_ptr, hf_test_i,
                   hf_clear_pc, hf_ended>>

\* a caller that initializes the instance, uses it, and uninitializes it;
\* when it calls initialize on an initialized instance it passes the region
\* once more
HfLifeNext ==
    \/ \E mem_ptr \in HfInitPointers : \E size \in HfInitSizes :
           /\ HfIsInitialized => HfOwnRegion(mem_ptr, size)
           /\ HfInitializeCall(mem_ptr, size)
    \/ HfInitializeData
    \/ HfUninitialize
    \/ HfDestructor
    \/ HfNotInitializedCall
    \/ \E n \in HfRequests : HfIsInitialized /\ HfAlloc(n)
    \/ \E a \in hf_live : HfIsInitialized /\ HfFree(a)
    \/ HfIsInitialized /\ HfClear

SpecHfInit ==
    /\ primask = FALSE
    /\ HfInit
    /\ LinUnused
    /\ SeqUnused
    /\ AutoUnused
    /\ SpInit /\ SlUnused /\ InitNone /\ IrqNone /\ ContUnused
SpecHf == SpecHfInit /\ [][HfNext]_vars

SpecHfTestInit ==
    /\ primask = FALSE
    /\ HfTestInit
    /\ LinUnused
    /\ SeqUnused
    /\ AutoUnused
    /\ SpInit /\ SlUnused /\ InitNone /\ IrqNone /\ ContUnused
SpecHfRelease == (SpecHfInit \/ SpecHfTestInit) /\ [][HfReleaseNext]_vars
SpecHfMisuse == SpecHfInit /\ [][HfMisuseNext]_vars
SpecHfConc == SpecHfInit /\ [][HfConcNext]_vars

\* AllocatorHalfFit(void): address_start(0), address_end(0)
SpecHfLifeInit ==
    primask \in BOOLEAN /\ HfUnused /\ LinUnused /\ SeqUnused /\ AutoUnused /\ SpInit /\ SlUnused /\ InitNone /\ IrqNone /\ ContUnused

SpecHfLife == SpecHfLifeInit /\ [][HfLifeNext]_vars

SpecAutoInit ==
    /\ primask = FALSE
    /\ AutoInit
    /\ LinUnused
    /\ SeqUnused
    /\ HfUnused
    /\ SpInit /\ SlUnused /\ InitNone /\ IrqNone /\ ContUnused
\* one caller context
SpecAuto == SpecAutoInit /\ [][AutoNext]_vars
\* one caller context, allocs and drops only
SpecAutoDrop == SpecAutoInit /\ [][AutoDropNext]_vars
\* two caller contexts
SpecAutoConc == SpecAutoInit /\ [][AutoConcNext]_vars
\* one caller context and its SharedPtr objects
SpecPtr == SpecAutoInit /\ [][SpNext]_vars

SpecSwap == SpecAutoInit /\ [][SpSwapNext]_vars

\* the caller uses one allocator: the instances of the others stay as
\* constructed
OnlyLin == SeqUnused /\ HfUnused /\ AutoUnused
OnlySeq == LinUnused /\ HfUnused /\ AutoUnused
OnlyHf == LinUnused /\ SeqUnused /\ AutoUnused
OnlyAuto == LinUnused /\ SeqUnused /\ HfUnused

\* a caller that initializes an allocator, uses it, and may call initialize
\* a second time
InitNext ==
    \/ \E mem_ptr \in InitPointers : \E size \in InitSizes :
           OnlyLin /\ LinInitialize(mem_ptr, size)
    \/ LinIsInitialized /\ LinNext
    \/ \E mem_ptr \in InitPointers : \E size \in InitSizes :
           OnlySeq /\ SeqInitialize(mem_ptr, size)
    \/ SeqIsInitialized /\ SeqNext
    \/ \E mem_ptr \in InitPointers : \E size \in InitSizes :
           OnlyAuto /\ AutoInitialize(mem_ptr, size)
    \/ AutoIsInitialized /\ AutoNext
    \/ OnlyHf /\ HfLifeNext

\* the four instances as constructed
SpecInitInit ==
    primask \in BOOLEAN /\ LinUnused /\ SeqUnused /\ HfUnused /\ AutoUnused
    /\ SpInit /\ SlUnused /\ InitNone /\ IrqNone /\ ContUnused

SpecInit == SpecInitInit /\ [][InitNext]_vars

SpecLockInit ==
    primask \in BOOLEAN /\ SlInit /\ LinUnused /\ SeqUnused /\ HfUnused /\ AutoUnused /\ SpInit
    /\ InitNone /\ IrqNone /\ ContUnused

SpecLock == SpecLockInit /\ [][SlNext]_vars

\* one core: the core executes the context that runs, instruction after
\* instruction, so a call whose position can change does go on (a context
\* at "held" can always run ReWork; an exchange that finds the flag set
\* leaves the position as it is)
SpecReInit ==
    /\ primask = FALSE
    /\ HfInit
    /\ SlInit
    /\ LinUnused /\ SeqUnused /\ AutoUnused /\ SpInit /\ InitNone /\ IrqNone /\ ContUnused

SpecRe == SpecReInit /\ [][ReNext]_vars /\ WF_sl_pc(ReStep)

----------------------------------------------------------------------------
(* C1: LinAllocator alloc succeeds whenever the pool holds a free block of  *)
(* at least the rounded payload size plus the 8-byte header: a call that   *)
(* returns OutOfMemory (1) was made on a pool with no such block.          *)
C1_AllocSucceedsWhenBlockFits ==
    (lin_pc = "idle" /\ lin_op = "alloc" /\ lin_result = OutOfMemory) => ~lin_fit

(* C4: SequentialFitAllocator partition invariant: in every state the      *)
(* walk from address_start arrives at address_end exactly and the sizes of *)
(* the blocks walked sum to address_end - address_start, also right after  *)
(* the scan has absorbed a free block that follows a free block.           *)
C4_SeqPartition ==
    /\ SeqWalk[2]
    /\ SizeSum(seq_mem, SeqWalk[1], SEQ_OFF_SIZE) = SubW(seq_address_end, seq_address_start)

(* C2: HalfFitAllocator partition invariant: after initialize and any      *)
(* sequence of alloc calls and free calls on live pointers, walking blocks *)
(* by address + size from address_start arrives at address_end exactly and *)
(* the sizes of the blocks visited sum to address_end - address_start.     *)
C2_HfPartition ==
    /\ HfWalk[2]
    /\ SizeSum(hf_mem, HfWalk[1], HF_OFF_SIZE) = SubW(hf_address_end, hf_address_start)

\* some allocation is live behind a block that a free has returned
HfFreeBeforeUsed ==
    \E i \in 1..Len(HfWalk[1]) : \E j \in 1..Len(HfWalk[1]) :
        /\ i < j
        /\ HfRefCount(hf_mem, HfWalk[1][i]) = NullW
        /\ HfRefCount(hf_mem, HfWalk[1][j]) /= NullW

C2_Witness == hf_live /= {} /\ HfFreeBeforeUsed /\ Len(HfWalk[1]) >= 3

(* C5: HalfFitAllocator no aliasing: the payload ranges [p, p + requested  *)
(* size) of the live allocations are pairwise disjoint, lie inside         *)
(* [address_start, address_end) and contain no size / ref_count header     *)
(* word and no footer word of any block.                                   *)
HfOff(a) == OffW(a)[2]
\* [p, p + requested size) lies inside [address_start, address_end)
HfPayloadInside(a) ==
    /\ LeW(hf_address_start, a.ptr) /\ LtW(a.ptr, hf_address_end)
    /\ LeW(a.req, SubW(hf_address_end, a.ptr))
HfPayloadBytes(a) == {HfOff(a.ptr) + i : i \in 0..(Val(a.req) - 1)}
HfMetaBytes ==
    UNION {  {HfOff(b) + i : i \in 0..7}
             \cup {HfOff(b) + Val(HfSize(hf_mem, b)) - i : i \in 1..4}
          : b \in BlocksOf(HfWalk) }

C5_HfNoAliasing ==
    /\ \A a \in hf_live : HfPayloadInside(a)
    /\ \A a \in hf_live : HfPayloadBytes(a) \cap HfMetaBytes = {}
    /\ \A a \in hf_live : \A b \in hf_live :
          a /= b => HfPayloadBytes(a) \cap HfPayloadBytes(b) = {}

(* C7: SequentialFitAllocator alloc always terminates: no call reaches a   *)
(* point of the scan where the next evaluation of the loop condition is    *)
(* true and leaves every variable as it is (the scan is deterministic, so  *)
(* from such a point it repeats that evaluation forever and never returns).*)
SeqSpinning ==
    /\ seq_pc = "absorb"
    /\ SeqHeaderIn(seq_mem, SeqNextAddress(seq_mem, seq_search_block))
    /\ SeqAbsorbTaken(seq_mem, seq_search_block)
    /\ SeqAbsorbMem(seq_mem, seq_search_block) = seq_mem

C7_SeqAllocTerminates == ~SeqSpinning

(* C3: AutoLinAlloc block ownership (single caller context): between the   *)
(* caller's operations, the payload address of every live handle is the    *)
(* payload of exactly one block of the partition walked by address + size  *)
(* from address_start, that block has ref_count > 0, and the sizes of the  *)
(* walked blocks sum to address_end - address_start.                       *)
AutoWalk ==
    Walk(auto_mem, auto_address_start, auto_address_end, AUTO_OFF_SIZE, Len(auto_mem))

AutoOwners(h) ==
    {i \in 1..Len(AutoWalk[1]) : AddW(AutoWalk[1][i], W(AUTO_OFF_CONTENT)) = h.ptr}

C3_AutoBlockOwnership ==
    auto_pc[1] = "idle" =>
        /\ AutoWalk[2]
        /\ SizeSum(auto_mem, AutoWalk[1], AUTO_OFF_SIZE)
              = SubW(auto_address_end, auto_address_start)
        /\ \A h \in auto_handles :
              /\ Cardinality(AutoOwners(h)) = 1
              /\ \A i \in AutoOwners(h) : AutoRefCount(auto_mem, AutoWalk[1][i]) /= NullW

(* C6: AutoLinAlloc no aliasing (single caller context): between the       *)
(* caller's operations, the blocks of two allocations that both have a     *)
(* live handle do not overlap in address range.                            *)
AutoBlockBytes(mem_ptr, block_size) ==
    {OffW(SubW(mem_ptr, W(AUTO_OFF_CONTENT)))[2] + i : i \in 0..(Val(block_size) - 1)}

C6_AutoNoAliasing ==
    auto_pc[1] = "idle" =>
        \A a \in auto_handles : \A b \in auto_handles :
            a /= b => AutoBlockBytes(a.ptr, a.size) \cap AutoBlockBytes(b.ptr, b.size) = {}

(* C8: AutoLinAlloc allocation_lock gives mutual exclusion: at most one     *)
(* context is between leaving the acquire loop of alloc and the store of   *)
(* false to allocation_lock.                                               *)
AutoInCriticalSection ==
    {c \in AutoContexts : auto_pc[c] \in {"scan", "claim", "release", "hang"}}

C8_AutoMutualExclusion == Cardinality(AutoInCriticalSection) <= 1

(* C9: AutoLinAlloc under concurrency: alloc calls that overlap in time     *)
(* never return handles to the same block or to overlapping blocks: the    *)
(* block a context is about to return overlaps neither the block another   *)
(* context is about to return nor the block of a handle already returned.  *)
AutoReturning == {c \in AutoContexts : auto_pc[c] = "release" /\ auto_result[c] /= NullW}

C9_AutoConcurrentAllocsDistinct ==
    \A c \in AutoReturning :
        /\ \A d \in AutoReturning \ {c} :
              AutoBlockBytes(auto_result[c], auto_block_size[c])
                 \cap AutoBlockBytes(auto_result[d], auto_block_size[d]) = {}
        /\ \A h \in auto_handles :
              AutoBlockBytes(auto_result[c], auto_block_size[c])
                 \cap AutoBlockBytes(h.ptr, h.size) = {}

(* C10: AutoLinAlloc reference counting round trip: the ref_count of the    *)
(* block of a live allocation equals the number of SharedPtr objects that  *)
(* share it (every copy raised it by one, every drop lowered it by one),   *)
(* and once every handle is dropped every block is free again and the      *)
(* partition is intact, so that the blocks can be served again.            *)
AutoSoleAllocation(h) == \A g \in auto_handles : g.ptr = h.ptr => g = h

C10_RefCountRoundTrip ==
    auto_pc[1] = "idle" =>
        /\ \A h \in auto_handles :
              AutoSoleAllocation(h) =>
                  AutoRefCount(auto_mem, SubW(h.ptr, W(AUTO_OFF_CONTENT))) = W(h.n)
        /\ auto_handles = {} =>
              /\ AutoWalk[2]
              /\ \A b \in BlocksOf(AutoWalk) : AutoRefCount(auto_mem, b) = NullW

(* C11: SharedPtr move: after move construction from b and after move      *)
(* assignment from b the destination holds the address b held, b is null,  *)
(* and the ref_count of the moved block is unchanged (a move assignment    *)
(* only decrements the block the destination held before).                 *)
SpMoved ==
    /\ sp_count' /= sp_count
    /\ auto_pc'[1] = "idle"
    /\ sp_op'.op \in {"move_ctor", "move_assign"}

SpMovedBlock == SubW(sp_mem_ptr[sp_op'.src], W(AUTO_OFF_CONTENT))

C11_SharedPtrMove ==
    [][SpMoved =>
          /\ sp_mem_ptr'[sp_op'.dst] = sp_mem_ptr[sp_op'.src]
          /\ sp_mem_ptr'[sp_op'.src] = NullW
          /\ (/\ sp_mem_ptr[sp_op'.src] /= NullW
              /\ sp_mem_ptr[sp_op'.dst] /= sp_mem_ptr[sp_op'.src])
                => AutoRefCount(auto_mem', SpMovedBlock) = AutoRefCount(auto_mem, SpMovedBlock)
      ]_vars

(* C12: AutoLinAlloc handle-to-block mapping: for every handle alloc is    *)
(* about to return, the payload address minus the header size SharedPtr    *)
(* subtracts (BLOCK_INFO_SIZE) is the address of the block allocate        *)
(* claimed, and the size of that block is a multiple of the word size.     *)
C12_HandleToBlock ==
    \A c \in AutoReturning :
        /\ AutoHandleBlock(auto_result[c]) = auto_search_block[c]
        /\ Val(AutoSize(auto_mem, auto_search_block[c])) % 2^AUTO_BYTE_PER_WORD_LOG2 = 0

(* C13: HalfFitAllocator out-of-memory reporting: an alloc that finds no   *)
(* non-empty free list at any order above the order of the request         *)
(* returns to the caller (it does not halt), returns the out-of-memory     *)
(* value, releases the Spinlock and leaves the region unchanged.           *)
HfStartIndex(n) == AddW(HfOrderFromSize(HfAdjust(n)), W(1))

HfNoListAbove(m, n) ==
    \/ ~LtW(HfStartIndex(n), W(hf_free_block_list_size))
    \/ HfScanIndex(m, Val(HfStartIndex(n))) >= hf_free_block_list_size

HfAllocStep == hf_op'.op = "alloc"

C13_HfOutOfMemoryReported ==
    [][(HfAllocStep /\ HfNoListAbove(hf_mem, hf_op'.req)) =>
          /\ hf_pc' = "idle"
          /\ ~hf_lock'
          /\ hf_op'.ptr = NullW
          /\ hf_mem' = hf_mem
          /\ hf_live' = hf_live
      ]_vars

(* C14: HalfFitAllocator alloc fails only when the pool has no block large *)
(* enough: an alloc made while some free block has at least the adjusted   *)
(* request size returns a pointer.                                         *)
HfFits(m, n) == \E blk \in HfFreeBlocks(m) : GeW(blk[2], HfAdjust(n))

C14_HfAllocSucceedsWhenBlockFits ==
    [][(HfAllocStep /\ HfFits(hf_mem, hf_op'.req)) =>
          (hf_pc' = "idle" /\ hf_op'.ptr /= NullW)
      ]_vars

(* C15: HalfFitAllocator alloc never returns a block that is too small:    *)
(* the block of every live allocation has at least the adjusted request    *)
(* size, and its payload, from the user pointer up to the footer word,     *)
(* holds at least the requested number of bytes.                           *)
HfPayloadRoom(a) ==
    SubW(HfSize(hf_mem, SubW(a.ptr, W(HF_OFF_PREV_FREE))), W(HF_BLOCKUSED_INFO_SIZE))

C15_HfBlockLargeEnough ==
    \A a \in hf_live :
        /\ GeW(HfSize(hf_mem, SubW(a.ptr, W(HF_OFF_PREV_FREE))), HfAdjust(a.req))
        /\ GeW(HfPayloadRoom(a), a.req)

(* C16: HalfFitAllocator segregated-list correctness: after every          *)
(* initialize, alloc, free and clear, every block linked in                *)
(* free_block_list[k] has 2^(k+5) <= size < 2^(k+6), and every free block  *)
(* of the pool has an order below free_block_list_size and is linked in    *)
(* one of the lists.                                                       *)
HfListIndices == 0..(hf_free_block_list_size - 1)

HfInList(m, i, b) == \E j \in 1..Len(HfFreeList(m, i)) : HfFreeList(m, i)[j] = b

HfFreeStep == hf_op'.op \in {"free", "undo"}

HfFreedBlock == SubW(hf_op'.ptr, W(HF_OFF_PREV_FREE))

HfMergedStart ==
    IF hf_op'.merged \in {"prev", "both"} THEN HfPrevBlock(hf_mem, HfFreedBlock)
    ELSE HfFreedBlock

HfMergedSize ==
    AddW(AddW(HfSize(hf_mem, HfFreedBlock),
              IF hf_op'.merged \in {"next", "both"}
              THEN HfSize(hf_mem, AddW(HfFreedBlock, HfSize(hf_mem, HfFreedBlock)))
              ELSE NullW),
         IF hf_op'.merged \in {"prev", "both"}
         THEN HfSize(hf_mem, HfPrevBlock(hf_mem, HfFreedBlock))
         ELSE NullW)

HfLinkCount(m, i, b) ==
    Cardinality({j \in 1..Len(HfFreeList(m, i)) : HfFreeList(m, i)[j] = b})

C17_HfCoalescing ==
    [][(HfFreeStep /\ hf_op'.merged /= "none") =>
          /\ hf_pc' = "idle"
          /\ HfSize(hf_mem', HfMergedStart) = HfMergedSize
          /\ RdWord(hf_mem', SubW(AddW(HfMergedStart, HfMergedSize), W(4))) = HfMergedSize
          /\ HfRefCount(hf_mem', HfMergedStart) = NullW
          /\ \A i \in HfListIndices :
                 HfLinkCount(hf_mem', i, HfMergedStart)
                     = IF 2^(i + HF_MIN_ALLOC_SIZE_LOG2) <= Val(HfMergedSize)
                          /\ Val(HfMergedSize) < 2^(i + HF_MIN_ALLOC_SIZE_LOG2 + 1)
                       THEN 1 ELSE 0
          /\ \E i \in HfListIndices : HfLinkCount(hf_mem', i, HfMergedStart) = 1
      ]_vars

\* a free has merged the block with the free block before it
C17_Witness ==
    /\ hf_pc = "idle"
    /\ hf_op.op \in {"free", "undo"}
    /\ hf_op.merged \in {"prev", "both"}

(* C18: HalfFitAllocator round trip: an alloc(n) that succeeds, followed   *)
(* at once by free of the pointer it returned, restores get_unused_size()  *)
(* and the set of free blocks (address and size) to what they were before  *)
(* the alloc.                                                              *)
C18_HfRoundTrip ==
    (hf_op.op = "undo") =>
        /\ hf_pc = "idle"
        /\ HfFreeBlocks(hf_mem) = hf_pre.blocks
        /\ HfUnusedSize(hf_mem) = hf_pre.unused

\* the alloc split a free block and the free merged the two parts again,
\* while another allocation was live
C18_Witness ==
    /\ hf_op.op = "undo"
    /\ hf_op.merged /= "none"
    /\ hf_live /= {}
    /\ hf_pre.blocks /= {}

(* C19: HalfFitAllocator full release: whenever every pointer returned by  *)
(* alloc has been freed once, the pool is a single free block spanning     *)
(* [address_start, address_end) and get_unused_size() equals               *)
(* get_total_size(), which is the check uninitialize makes; and            *)
(* unit_test1 (512-byte region, ten alloc(16), free of the odd-indexed     *)
(* pointers, then of the even-indexed ones) hits no assertion.             *)
HfTotalSize == SubW(hf_address_end, hf_address_start)

HfAllReleased == hf_pc = "idle" /\ hf_mem /= <<>> /\ hf_live = {}

C19_HfFullRelease ==
    /\ HfAllReleased =>
           /\ HfWalk = <<(<<hf_address_start>>), TRUE>>
           /\ HfSize(hf_mem, hf_address_start) = HfTotalSize
           /\ HfRefCount(hf_mem, hf_address_start) = NullW
           /\ HfFreeBlocks(hf_mem) = {<<hf_address_start, HfTotalSize>>}
           /\ HfUnusedSize(hf_mem) = HfTotalSize
    /\ hf_test_pc \notin {"off", "stop"} =>
           /\ hf_pc = "idle"
           /\ \A i \in 1..Len(hf_test_ptr) : hf_test_ptr[i] /= NullW
    /\ hf_test_pc = "done" => hf_live = {}

\* unit_test1 has run to its end
C19_Witness ==
    /\ hf_test_pc = "done"
    /\ Len(hf_test_ptr) = alloc_count
    /\ HfAllReleased
    /\ hf_op.op = "free"

(* C20: HalfFitAllocator double free is always caught: a second free of a  *)
(* pointer that was freed already, with no alloc in between and whatever   *)
(* neighbours the first free merged the block with, halts on one of the    *)
(* two assertions at the top of free and changes nothing in the region.    *)
C20_HfDoubleFreeCaught ==
    [][(hf_op'.op = "double_free") =>
          (hf_pc' = "halt" /\ hf_mem' = hf_mem)
      ]_vars

(* C21: HalfFitAllocator locking: alloc, free, clear and get_unused_size   *)
(* hold the Spinlock for all their accesses to block headers and free      *)
(* lists, so no alloc or free of another context runs while a clear is     *)
(* between its first and its last access.                                  *)
C21_HfOperationsLocked ==
    [][(hf_op'.op \in {"alloc", "free", "undo"}) => hf_clear_pc = "idle"]_vars

(* C26: SequentialFitAllocator out-of-memory reporting: when allocate      *)
(* returned 1, the pointer alloc returns to the caller is the null         *)
(* pointer, and so is none of the payload pointers the caller holds.       *)
C26_SeqOutOfMemoryNull ==
    (seq_pc = "idle" /\ seq_status = OutOfMemory) =>
        (seq_result = NullW /\ seq_result \notin seq_live)

(* C25: LinearAllocator free: free returns 0 and leaves the block Free     *)
(* when the block was Used, returns 1 when it was Free already, so for a   *)
(* pointer p that alloc handed out free(p); free(p) returns 0 then 1, and  *)
(* no free changes the cursor.                                             *)
LinFreedBlock == SubW(lin_frees.ptr, W(LIN_BLOCK_INFO_SIZE))

AutoFailing == {c \in AutoContexts : auto_pc[c] = "release" /\ auto_result[c] = NullW}

AutoBlocksAtCall(c) ==
    BlocksOf(Walk(auto_pre[c].mem, auto_address_start, auto_address_end, AUTO_OFF_SIZE,
                  Len(auto_pre[c].mem)))

SpSwapped ==
    /\ sp_count' /= sp_count
    /\ auto_pc'[1] = "idle"
    /\ sp_op'.op = "swap"

C30_SharedPtrSwap ==
    [][SpSwapped =>
          /\ auto_mem' = auto_mem
          /\ IF sp_mem_ptr[sp_op'.dst] = sp_mem_ptr[sp_op'.src]
             THEN /\ sp_mem_ptr'[sp_op'.dst] = NullW
                  /\ sp_mem_ptr'[sp_op'.src] = NullW
             ELSE /\ sp_mem_ptr'[sp_op'.dst] = sp_mem_ptr[sp_op'.src]
                  /\ sp_mem_ptr'[sp_op'.src] = sp_mem_ptr[sp_op'.dst]
      ]_vars


(* C28: Spinlock mutual exclusion: at most one context at a time is        *)
(* between the return of its acquire and its call to release.              *)
SlHolders == {c \in SlContexts : sl_pc[c] = "held"}

C28_SpinlockMutualExclusion == Cardinality(SlHolders) <= 1

\* a context holds the lock for the second time while another spins on it
C28_Witness ==
    /\ Cardinality(SlHolders) = 1
    /\ Cardinality({c \in SlContexts : sl_pc[c] = "spin"}) >= 1
    /\ \E c \in SlContexts : sl_calls[c] = SlMaxCalls /\ sl_pc[c] = "held"

(* C29: Spinlock interrupt-state restore: when a release returns, PRIMASK  *)
(* of the releasing context's core equals its value when that context      *)
(* called acquire, whatever the other contexts did in between.             *)
C29_SpinlockRestoresPrimask ==
    \A c \in SlContexts : sl_after[c] /= SlNoRelease => sl_after[c][1] = sl_before[c]


(* C22: HalfFitAllocator uninitialize: called while get_unused_size()      *)
(* differs from get_total_size() it halts and resets nothing; otherwise it *)
(* returns and leaves is_initialized() false, and an initialize call made  *)
(* after it with a valid region passes every assertion and leaves the      *)
(* instance initialized with the pool one free block.                      *)
HfUninitializeStep ==
    /\ hf_op'.op = "uninitialize"
    /\ hf_op.op /= "uninitialize" \/ hf_pc' /= hf_pc

HfInitializeStep == hf_pc = "idle" /\ hf_pc' /= "idle" /\ hf_op'.op = "initialize"

\* the least region that holds a one-slot list and a block of MIN_ALLOC_SIZE
HfLeastSize == HF_BLOCK_ALIGNMENT + HF_MIN_ALLOC_SIZE

HfValidRegion(mem_ptr, size) ==
    HfAligned(mem_ptr) /\ HfAligned(size) /\ Val(size) >= HfLeastSize

C22_HfUninitialize ==
    [][/\ (HfUninitializeStep /\ HfIsInitialized) =>
              IF HfUnusedSize(hf_mem) /= HfGetTotalSize
              THEN /\ hf_pc' = "halt"
                   /\ hf_address_start' = hf_address_start
                   /\ hf_address_end' = hf_address_end
                   /\ hf_mem' = hf_mem
              ELSE /\ hf_pc' = "idle"
                   /\ hf_address_start' = hf_address_end'
       /\ (HfInitializeStep /\ hf_op.op = "uninitialize"
              /\ HfValidRegion(hf_op'.ptr, hf_op'.req)) => hf_pc' = "init"
       /\ (hf_pc = "init" /\ hf_ended > 0 /\ HfValidRegion(hf_op.ptr, hf_op.req)) =>
              /\ hf_pc' = "idle"
              /\ hf_address_start' /= hf_address_end'
              /\ HfFreeBlocks(hf_mem') = {<<hf_address_start, HfGetTotalSize>>}
      ]_vars

\* the instance is in use again after an uninitialize that returned, and an
\* uninitialize called with an allocation outstanding has halted
C22_Witness ==
    /\ hf_ended > 0
    /\ hf_address_start /= hf_address_end
    /\ hf_live /= {}
    /\ hf_op.op = "uninitialize"
    /\ hf_pc = "halt"

(* C24: HalfFitAllocator initialize validates its arguments: called on an  *)
(* instance that is not initialized it halts when mem_ptr is not a         *)
(* multiple of BLOCK_ALIGNMENT, when size is not one, or when size is less *)
(* than a list and one block of MIN_ALLOC_SIZE need; when it does not halt *)
(* the pool lies after the list and ends where the region ends.            *)
HfListEnd == AddW(hf_free_block_list, W(4 * hf_free_block_list_size))

C24_HfInitializeValidates ==
    [][(HfInitializeStep /\ hf_address_start = hf_address_end) =>
          /\ ~HfValidRegion(hf_op'.ptr, hf_op'.req) => hf_pc' = "halt"
          /\ hf_pc' = "init" =>
                 /\ hf_free_block_list' = hf_op'.ptr
                 /\ GeW(hf_address_start', HfListEnd')
                 /\ GtW(hf_address_end', hf_address_start')
                 /\ hf_address_end' = AddW(hf_op'.ptr, hf_op'.req)
      ]_vars


(* C23: re-initialization is rejected: an initialize call made on an       *)
(* initialized LinAllocator, AllocatorSeqFit, AllocatorHalfFit or          *)
(* AutoLinAlloc halts and leaves the region, the cursor (the free lists of *)
(* AllocatorHalfFit) and the pool bounds as they were.                     *)
InitStep(who) == init_op' /= init_op /\ init_op'.who = who

C23_ReinitializeRejected ==
    [][/\ (InitStep("lin") /\ lin_address_start /= lin_address_end) =>
              /\ lin_pc' = "halt"
              /\ lin_mem' = lin_mem
              /\ lin_next_search_block' = lin_next_search_block
              /\ lin_address_start' = lin_address_start
              /\ lin_address_end' = lin_address_end
       /\ (InitStep("seq") /\ seq_address_start /= seq_address_end) =>
              /\ seq_pc' = "halt"
              /\ seq_mem' = seq_mem
              /\ seq_next_search_block' = seq_next_search_block
              /\ seq_address_start' = seq_address_start
              /\ seq_address_end' = seq_address_end
       /\ (InitStep("auto") /\ auto_address_start /= auto_address_end) =>
              /\ auto_pc'[1] = "halt"
              /\ auto_mem' = auto_mem
              /\ auto_next_search_block' = auto_next_search_block
              /\ auto_address_start' = auto_address_start
              /\ auto_address_end' = auto_address_end
       /\ (HfInitializeStep /\ hf_address_start /= hf_address_end) =>
              /\ hf_pc' = "halt"
              /\ hf_mem' = hf_mem
              /\ hf_free_block_list' = hf_free_block_list
              /\ hf_free_block_list_size' = hf_free_block_list_size
              /\ hf_address_start' = hf_address_start
              /\ hf_address_end' = hf_address_end
      ]_vars

\* initialize was called on an AllocatorSeqFit that holds a live allocation
C23_Witness ==
    /\ init_op = [who |-> "seq", count |-> 2]
    /\ seq_address_start /= seq_address_end
    /\ seq_live /= {}
    /\ seq_pc = "halt"


(* C36: HalfFitAllocator eager coalescing invariant: after initialize and  *)
(* any sequence of alloc calls and free calls on live pointers, no two     *)
(* address-adjacent blocks are both free (ref_count 0).                    *)
HfFreeAt(j) == HfRefCount(hf_mem, HfWalk[1][j]) = NullW

C36_HfNoAdjacentFree ==
    (hf_pc = "idle" /\ hf_mem /= <<>>) =>
        /\ HfWalk[2]
        /\ \A j \in 1..(Len(HfWalk[1]) - 1) : ~(HfFreeAt(j) /\ HfFreeAt(j + 1))

\* a free has just merged a block with its free neighbour while free and
\* used blocks alternate in the pool
C36_Witness ==
    /\ hf_pc = "idle"
    /\ hf_op.op = "free"
    /\ hf_op.merged = "prev"
    /\ Len(HfWalk[1]) >= 4
    /\ \E j \in 1..(Len(HfWalk[1]) - 2) : HfFreeAt(j) /\ ~HfFreeAt(j + 1) /\ HfFreeAt(j + 2)

(* C37: HalfFitAllocator free lists agree with the address walk: the       *)
(* blocks linked in the free lists are exactly the blocks with ref_count 0 *)
(* met walking from address_start, each linked once in one list; every     *)
(* list is doubly linked with a null prev link at its head; the footer of  *)
(* every block equals its size; and get_used_size() equals the sum of the  *)
(* sizes of the used blocks of the walk (get_used_size_ver2).              *)
HfWalkFree == {b \in BlocksOf(HfWalk) : HfRefCount(hf_mem, b) = NullW}

HfLinked == UNION {BlocksOf(<<HfFreeList(hf_mem, i)>>) : i \in HfListIndices}

HfLinksOf(b) == [i \in HfListIndices |-> HfLinkCount(hf_mem, i, b)]

\* the list is doubly linked: null prev at the head, each prev link the
\* block before, null next at the end
HfWellLinked(list) ==
    \A j \in 1..Len(list) :
        /\ HfPrevFree(hf_mem, list[j]) = IF j = 1 THEN NullW ELSE list[j - 1]
        /\ j = Len(list) => HfNextFree(hf_mem, list[j]) = NullW

\* get_used_size_ver2, lines 227-243: the sum over the walk
RECURSIVE HfUsedSum(_)
HfUsedSum(blocks) ==
    IF blocks = <<>> THEN NullW
    ELSE AddW(IF GtW(HfRefCount(hf_mem, Head(blocks)), NullW)
              THEN HfSize(hf_mem, Head(blocks)) ELSE NullW,
              HfUsedSum(Tail(blocks)))

HfListsAgree ==
        /\ HfWalk[2]
        /\ HfLinked = HfWalkFree
        /\ \A b \in HfWalkFree :
               /\ \E i \in HfListIndices : HfLinksOf(b)[i] = 1
               /\ Cardinality({i \in HfListIndices : HfLinksOf(b)[i] /= 0}) = 1
        /\ \A i \in HfListIndices : HfWellLinked(HfFreeList(hf_mem, i))
        /\ \A b \in BlocksOf(HfWalk) : RdWord(hf_mem, HfFooterAddr(hf_mem, b)) = HfSize(hf_mem, b)
        /\ SubW(SubW(hf_address_end, hf_address_start), HfUnusedSize(hf_mem))
               = HfUsedSum(HfWalk[1])

C37_HfListsAgreeWithWalk == (hf_pc = "idle" /\ hf_mem /= <<>>) => HfListsAgree

\* two free blocks are linked in one list while allocations are live
C37_Witness ==
    /\ hf_pc = "idle"
    /\ hf_live /= {}
    /\ \E i \in HfListIndices : Len(HfFreeList(hf_mem, i)) >= 2
    /\ Cardinality(HfWalkFree) >= 2

(* C39: HalfFitAllocator lifecycle: destroying an instance that was never  *)
(* initialized, or that was already explicitly uninitialized, completes    *)
(* without a contract violation.                                           *)
C39_HfDestroyUninitialized ==
    (hf_op.op = "destroy" /\ ~HfIsInitialized) => hf_pc /= "halt"

(* C38: interrupt state is preserved: LinearAllocator alloc and free and   *)
(* SequentialFitAllocator alloc return with the interrupt-enable state     *)
(* the caller had on entry; called with interrupts disabled, they return   *)
(* with interrupts still disabled.                                         *)
IrqNoCallRunning == lin_pc = "idle" /\ seq_pc = "idle"

C38_InterruptStatePreserved == IrqNoCallRunning => primask = irq_entry

(* C40: HalfFitAllocator reentrancy on a single core: an interrupt handler *)
(* that calls alloc or free while the interrupted context is anywhere      *)
(* inside alloc or free never finds the Spinlock held, every acquire       *)
(* eventually returns, and the operation of the handler sees the block     *)
(* headers and the free lists in a consistent state.                       *)
ReAcquiring(c) == sl_pc[c] \in {"mask", "spin"}

\* no context that is about to execute the exchange finds the flag set
ReFindsFree == \A c \in ReContexts : (sl_pc[c] = "spin" /\ SlRuns(c)) => ~sl_m_lock

\* a context that left acquire finds the headers and the lists consistent
ReSeesConsistent == \A c \in ReContexts : sl_pc[c] = "held" => HfListsAgree

ReHalted == \E c \in ReContexts : sl_pc[c] = "halt"

C40_HfReentrancy ==
    /\ []ReFindsFree
    /\ []ReSeesConsistent
    /\ \A c \in ReContexts : ReAcquiring(c) ~> (sl_pc[c] = "held")

\* the acquire of every context returns unless a call has ended in the halt
\* of a failed TX_ASSERT
ReReturnsUnlessHalted ==
    \A c \in ReContexts : ReAcquiring(c) ~> (sl_pc[c] = "held" \/ ReHalted)

(* C34: AutoLinAlloc handle-count invariant: between the operations of the *)
(* caller (alloc, copy construction, move construction, copy assignment,   *)
(* move assignment, destruction) the partition is intact and the ref_count *)
(* of every block equals the number of SharedPtr objects that hold its     *)
(* payload address; so it never wraps below zero, and a block with a live  *)
(* handle never has ref_count 0.                                           *)
RECURSIVE SpSharing(_)
SpSharing(handles) ==
    IF handles = {} THEN 0
    ELSE LET h == CHOOSE g \in handles : TRUE IN h.n + SpSharing(handles \ {h})

\* the SharedPtr objects that hold mem_ptr: the variables of the caller and
\* the objects alloc returned that no variable has taken yet
SpHolders(mem_ptr) ==
    Cardinality({o \in SpObjects : sp_mem_ptr[o] = mem_ptr})
       + SpSharing({h \in auto_handles : h.ptr = mem_ptr})

C34_HandleCountInvariant ==
    auto_pc[1] = "idle" =>
        /\ AutoWalk[2]
        /\ \A b \in BlocksOf(AutoWalk) :
               AutoRefCount(auto_mem, b) = W(SpHolders(AddW(b, W(AUTO_OFF_CONTENT))))

(* C35: AutoLinAlloc passive reclamation is complete (single caller): once *)
(* every handle has been dropped, an alloc of a size that a fresh pool of  *)
(* the same size serves returns a pointer again, whatever allocs, failed   *)
(* allocs and drops came before.                                           *)
\* a fresh pool is one free block of address_end - address_start bytes
AutoFreshServes(block_size) == LeW(block_size, SubW(auto_address_end, auto_address_start))

\* the alloc call of the caller has come to its end: allocate has returned,
\* or the scan ran out of the region or round forever
AutoCallEnded == auto_pc[1] \in {"release", "wild", "hang"}

C35_ReclamationComplete ==
    (AutoCallEnded /\ auto_handles = {} /\ AutoFreshServes(auto_block_size[1]))
        => (auto_pc[1] = "release" /\ auto_result[1] /= NullW)

(* C33: Queue is a bounded double-ended FIFO: while no precondition was     *)
(* broken, pop_front has returned the oldest stored element and pop_back    *)
(* the newest, get_size() is the number of stored elements, is_empty()      *)
(* holds iff that number is 0 and is_full() iff it is the capacity, m_front *)
(* is in [0, capacity) and m_back in [0, capacity].                         *)
C33_QueueIsDeque ==
    q_pc = "idle" =>
        /\ q_op.op \in {"pop_front", "pop_back"} => q_op.value = q_op.expected
        /\ QGetSize = Len(q_stored)
        /\ QIsEmpty <=> Len(q_stored) = 0
        /\ QIsFull <=> Len(q_stored) = q_capacity
        /\ q_front \in 0..(q_capacity - 1)
        /\ q_back \in 0..q_capacity

\* pop_back has returned the newest element of a queue whose elements wrap
\* around the end of m_array, and the queue still holds an older element
C33_Witness ==
    /\ q_pc = "idle"
    /\ q_op.op = "pop_back"
    /\ q_op.value = QMaxValue
    /\ q_front > 0
    /\ q_back = q_capacity
    /\ q_stored /= <<>>
    /\ q_stored[1] /= q_op.value

(* C31: HashTable is a map: while size has stayed below CAPACITY, find(key) *)
(* points to the value last inserted for every key inserted and not removed *)
(* since and is nullptr for every other key, also after a remove in a probe *)
(* run that wraps around the end of the table, and get_size() is the number *)
(* of stored keys.                                                         *)
C31_HashTableIsMap ==
    ht_pc = "idle" =>
        /\ \A key \in HtKeys :
              IF ht_map[key] = HtAbsent THEN HtFind(key) = HtNullptr
              ELSE /\ HtFind(key) /= HtNullptr
                   /\ ht_value_list[HtFind(key) + 1] = ht_map[key]
        /\ HtGetSize = Cardinality({key \in HtKeys : ht_map[key] /= HtAbsent})

\* the keys that refer to the value slot ref
FhKeysOf(ref) == {i \in 1..FhKeyCapacity : fh_ref_list[i] = ref}

(* C32: ForgetfulHash insert-then-find: right after insert(key, value),     *)
(* find(key) points to a slot holding value, whether or not a key was       *)
(* evicted; get_size() is at most VALUE_CAPACITY and no two stored keys     *)
(* refer to the same value slot.                                           *)
C32_ForgetfulInsertThenFind ==
    (fh_pc = "idle" /\ fh_op.key /= FhNotWritten) =>
        /\ FhFind(fh_op.key) /= FhNullptr
        /\ fh_value_array[FhFind(fh_op.key) + 1] = fh_op.value
        /\ FhGetSize <= FhValueCapacity
        /\ \A ref \in 0..(FhValueCapacity - 1) : Cardinality(FhKeysOf(ref)) <= 1

====
